---------------------------- MODULE Spec2Model ----------------------------
(***************************************************************************)
(* Region labelling, contour tracing and hole compositing of               *)
(* QRSVGBuilder.drawComponents (src/src/core/QRSVGBuilder.ts) with the     *)
(* drawers of src/src/core/PathDrawer.ts.                                  *)
(*                                                                         *)
(* Arrays are 0-indexed in the source and are modelled by sequences, read  *)
(* through Get, which also models an out-of-range read (undefined).        *)
(* Lengths of path commands are kept in half units (twice the number in    *)
(* the d string), so that size / 2 is exact for every integer size.        *)
(***************************************************************************)
EXTENDS Integers, Sequences, FiniteSets, TLC

(***************************************************************************)
(* Bounds of the model.                                                    *)
(***************************************************************************)
\* side of the largest mask that is enumerated cell by cell
MaxDim == 3
\* largest module count of a symbol handed to buildDotsMask
MaxCount == 9
\* largest module size a drawer is built with
MaxSize == 4
\* longer side of the enclosed part of a mask that is not square
MaxRect == 4
\* symbols one QRCodeStyling instance makes
MaxSymbols == 2
\* asynchronous calls of one QRCodeStyling instance that run at a time
MaxCalls == 1

(***************************************************************************)
(* Values of the label maps.                                               *)
(***************************************************************************)
\* null: a cell that is not labelled in this pass
Null == 0
\* undefined: the result of reading outside an array
Undefined == -1
\* NaN: Math.min over a list that holds undefined
NaN == -2

Truthy(v) == v \notin {Null, Undefined, NaN}

\* m[row]?.[col] for a 0-indexed array of arrays
Get(m, row, col) ==
  IF row >= 0 /\ row < Len(m) /\ col >= 0 /\ col < Len(m[row + 1])
  THEN m[row + 1][col + 1]
  ELSE Undefined

\* m[row][col] = v
Put(m, row, col, v) == [m EXCEPT ![row + 1][col + 1] = v]

SeqToSet(s) == {s[i] : i \in 1..Len(s)}

SetMin(S) == CHOOSE x \in S : \A y \in S : x <= y

\* Math.min(...values)
MathMin(S) == IF Undefined \in S \/ NaN \in S THEN NaN ELSE SetMin(S)

(***************************************************************************)
(* buildConnectedComponents: first loop, one cell of the raster scan.      *)
(* A scan state is [components, currentComponent, equivalences, sets]:     *)
(* equivalences maps an id to the index in sets of the Set object it       *)
(* refers to, so that an object shared by several ids is one entry.        *)
(***************************************************************************)
\* MergeClass that records no equivalence between id and the class cls
MergeClass_Forgotten(st, cls, id) ==
  st

\* the inner loop: move every member of the class of id into the class cls
MergeClass(st, cls, id) ==
  IF id \in st.sets[cls]
  THEN st
  ELSE LET members == IF id \in DOMAIN st.equivalences
                      THEN st.sets[st.equivalences[id]]
                      ELSE {id}
       IN [st EXCEPT
             !.sets = [@ EXCEPT ![cls] = @ \cup members],
             !.equivalences =
                [k \in (DOMAIN @) \cup members |->
                   IF k \in members THEN cls ELSE @[k]]]

RECURSIVE MergeAll(_, _, _, _)
MergeAll(st, cls, validIds, i) ==
  IF i > Len(validIds)
  THEN st
  ELSE MergeAll(MergeClass(st, cls, validIds[i]), cls, validIds, i + 1)

\* line 325
IsEdge(dotsMask, row, col) ==
  \/ col = 0
  \/ row = 0
  \/ col = Len(dotsMask[row + 1]) - 1
  \/ row = Len(dotsMask) - 1

\* line 326
LeftComponent(components, row, col) ==
  IF col > 0 THEN Get(components, row, col - 1) ELSE Null

\* line 327
TopComponent(components, row, col) ==
  IF row > 0 THEN Get(components, row - 1, col) ELSE Null

\* TopLeftComponent that looks at the diagonal in the 4-connected pass too
TopLeftComponent_Always(components, row, col, connectedness) ==
  IF col > 0 /\ row > 0
  THEN Get(components, row - 1, col - 1)
  ELSE Null

\* line 328
TopLeftComponent(components, row, col, connectedness) ==
  IF col > 0 /\ row > 0 /\ connectedness = 8
  THEN Get(components, row - 1, col - 1)
  ELSE Null

\* TopRightComponent that never looks at the top-right neighbour
TopRightComponent_Missing(dotsMask, components, row, col, connectedness) ==
  Null

\* lines 329-330
TopRightComponent(dotsMask, components, row, col, connectedness) ==
  IF col < Len(dotsMask) - 1 /\ row > 0 /\ connectedness = 8
  THEN Get(components, row - 1, col + 1)
  ELSE Null

\* line 336: the synthetic id of the outside
EdgeComponent(dotsMask, row, col, connectedness) ==
  IF IsEdge(dotsMask, row, col) /\ connectedness = 8 THEN 1 ELSE Null

ScanCell(dotsMask, invert, connectedness, st, row, col) ==
  IF Get(dotsMask, row, col) = invert
  THEN [st EXCEPT !.components = Put(@, row, col, Null)]
  ELSE
    LET components == st.components
        validIds ==
          SelectSeq(<<LeftComponent(components, row, col),
                      TopComponent(components, row, col),
                      TopLeftComponent(components, row, col, connectedness),
                      TopRightComponent(dotsMask, components, row, col,
                                        connectedness),
                      EdgeComponent(dotsMask, row, col, connectedness)>>,
                    LAMBDA n : n # Null)
    IN IF Len(validIds) = 0
       THEN [st EXCEPT
               !.currentComponent = @ + 1,
               !.components = Put(@, row, col, st.currentComponent + 1)]
       ELSE IF Len(validIds) = 1
       THEN [st EXCEPT !.components = Put(@, row, col, validIds[1])]
       ELSE
         LET minComponent == MathMin(SeqToSet(validIds))
             st1 == [st EXCEPT !.components = Put(@, row, col, minComponent)]
             st2 == IF minComponent \in DOMAIN st1.equivalences
                    THEN st1
                    ELSE [st1 EXCEPT
                            !.sets = Append(@, {minComponent}),
                            !.equivalences =
                               [k \in (DOMAIN @) \cup {minComponent} |->
                                  IF k = minComponent
                                  THEN Len(st1.sets) + 1
                                  ELSE @[k]]]
         IN MergeAll(st2, st2.equivalences[minComponent], validIds, 1)

\* the k-th cell (k = 0, 1, ...) of the nested row / col loops over m
RasterRow(m, k) == k \div Len(m[1])
RasterCol(m, k) == k % Len(m[1])
RasterLen(m) == IF Len(m) = 0 THEN 0 ELSE Len(m) * Len(m[1])

RECURSIVE ScanFrom(_, _, _, _, _)
ScanFrom(dotsMask, invert, connectedness, st, k) ==
  IF k >= RasterLen(st.components)
  THEN st
  ELSE ScanFrom(dotsMask, invert, connectedness,
                ScanCell(dotsMask, invert, connectedness, st,
                         RasterRow(dotsMask, k), RasterCol(dotsMask, k)),
                k + 1)

\* the state after the first loop: provisional ids and their equivalences
ScanPass(dotsMask, invert, connectedness) ==
  ScanFrom(dotsMask, invert, connectedness,
           [components |-> [r \in 1..Len(dotsMask) |->
                              [c \in 1..Len(dotsMask[r]) |-> Undefined]],
            currentComponent |-> 1,
            equivalences |-> [k \in {} |-> 0],
            sets |-> << >>],
           0)

(***************************************************************************)
(* buildConnectedComponents: second loop, "Resolve aliases".  ids is the   *)
(* Map in insertion order, as a sequence of [id, row, col].                *)
(***************************************************************************)
HasId(ids, id) == \E i \in 1..Len(ids) : ids[i].id = id

\* ResolveCell that registers the last cell of an id instead of the first
ResolveCell_LastCell(scan, acc, row, col) ==
  LET value == Get(acc.components, row, col)
  IN IF Truthy(value)
     THEN LET id == MathMin(IF value \in DOMAIN scan.equivalences
                            THEN scan.sets[scan.equivalences[value]]
                            ELSE {value})
          IN [components |-> Put(acc.components, row, col, id),
              ids |-> IF HasId(acc.ids, id)
                      THEN [i \in 1..Len(acc.ids) |->
                              IF acc.ids[i].id = id
                              THEN [id |-> id, row |-> row, col |-> col]
                              ELSE acc.ids[i]]
                      ELSE Append(acc.ids, [id |-> id, row |-> row, col |-> col])]
     ELSE acc

ResolveCell(scan, acc, row, col) ==
  LET value == Get(acc.components, row, col)
  IN IF Truthy(value)
     THEN LET id == MathMin(IF value \in DOMAIN scan.equivalences
                            THEN scan.sets[scan.equivalences[value]]
                            ELSE {value})
          IN [components |-> Put(acc.components, row, col, id),
              ids |-> IF HasId(acc.ids, id)
                      THEN acc.ids
                      ELSE Append(acc.ids, [id |-> id, row |-> row, col |-> col])]
     ELSE acc

RECURSIVE ResolveFrom(_, _, _)
ResolveFrom(scan, acc, k) ==
  IF k >= RasterLen(acc.components)
  THEN acc
  ELSE ResolveFrom(scan,
                   ResolveCell(scan, acc, RasterRow(scan.components, k),
                               RasterCol(scan.components, k)),
                   k + 1)

ResolveAliases(scan) ==
  ResolveFrom(scan, [components |-> scan.components, ids |-> << >>], 0)

buildConnectedComponents(dotsMask, invert, connectedness) ==
  ResolveAliases(ScanPass(dotsMask, invert, connectedness))

(***************************************************************************)
(* path.utils: the segment builders.  A command of a d string is the       *)
(* record [op, r, dx, dy]: r is the radius of an arc (0 otherwise), dx and *)
(* dy the relative displacement (the absolute position for M).  The        *)
(* argument h of a builder is its size argument in half units.             *)
(***************************************************************************)
Cmd(op, r, dx, dy) == [op |-> op, r |-> r, dx |-> dx, dy |-> dy]

down(h) == <<Cmd("v", 0, 0, h)>>
right(h) == <<Cmd("h", 0, h, 0)>>
\* up that draws downwards
up_Down(h) == <<Cmd("v", 0, 0, h)>>
up(h) == <<Cmd("v", 0, 0, -h)>>
left(h) == <<Cmd("h", 0, -h, 0)>>
leftDownArc(h) == <<Cmd("a", h, -h, h)>>
\* upLeftArc that ends to the right instead of the left
upLeftArc_Right(h) == <<Cmd("a", h, h, -h)>>
upLeftArc(h) == <<Cmd("a", h, -h, -h)>>
downRightArc(h) == <<Cmd("a", h, h, h)>>
\* rightUpArc that ends below instead of above
rightUpArc_Down(h) == <<Cmd("a", h, h, h)>>
rightUpArc(h) == <<Cmd("a", h, h, -h)>>
bottomUArc(h) == <<Cmd("a", h \div 2, h, 0)>>
rightUArc(h) == <<Cmd("a", h \div 2, 0, -h)>>
topUArc(h) == <<Cmd("a", h \div 2, -h, 0)>>
leftUArc(h) == <<Cmd("a", h \div 2, 0, h)>>

\* `M ${x} ${y} ` and `m ${dx} ${dy}`
MoveTo(x, y) == <<Cmd("M", 0, x, y)>>
\* MoveBy that moves along x only
MoveBy_Horizontal(dx, dy) == <<Cmd("m", 0, dx, 0)>>
MoveBy(dx, dy) == <<Cmd("m", 0, dx, dy)>>

(***************************************************************************)
(* PathDrawer and its subclasses.  A drawer is named by its style; a       *)
(* method call on it is dispatched to the nearest class of its chain that  *)
(* defines the method, and a call on `this` inside a body is dispatched    *)
(* again from the drawer's own class.                                      *)
(***************************************************************************)
Styles == {"square", "classy", "classy-rounded", "rounded", "extra-rounded"}

Methods == {"right", "rightUp", "rightU", "left", "leftDown", "leftU",
            "down", "downRight", "downU", "up", "upLeft", "upU", "singleDot"}

\* drawerFactory: the class built for a style
drawerFactory(style) ==
  CASE style = "classy" -> "ClassyPathDrawer"
    [] style = "classy-rounded" -> "ClassyRoundedPathDrawer"
    [] style = "rounded" -> "RoundedPathDrawer"
    [] style = "extra-rounded" -> "ExtraRoundedPathDrawer"
    [] style = "square" -> "PathDrawer"
    [] OTHER -> "undefined"

\* class X extends Superclass(X)
Superclass(cls) ==
  CASE cls = "ClassyPathDrawer" -> "PathDrawer"
    [] cls = "ClassyRoundedPathDrawer" -> "PathDrawer"
    [] cls = "RoundedPathDrawer" -> "ClassyPathDrawer"
    [] cls = "ExtraRoundedPathDrawer" -> "RoundedPathDrawer"

\* Declares with a ClassyPathDrawer that overrides rightUp only
Declares_ClassyRightUpOnly(cls) ==
  CASE cls = "PathDrawer" -> Methods
    [] cls = "ClassyPathDrawer" -> {"rightUp"}
    [] cls = "ClassyRoundedPathDrawer" -> {"rightUp", "leftDown", "singleDot"}
    [] cls = "RoundedPathDrawer" ->
         {"downRight", "upLeft", "downU", "leftU", "rightU", "upU", "singleDot"}
    [] cls = "ExtraRoundedPathDrawer" ->
         {"rightUp", "leftDown", "downRight", "upLeft"}

\* the methods a class declares itself
Declares(cls) ==
  CASE cls = "PathDrawer" -> Methods
    [] cls = "ClassyPathDrawer" -> {"rightUp", "leftDown"}
    [] cls = "ClassyRoundedPathDrawer" -> {"rightUp", "leftDown", "singleDot"}
    [] cls = "RoundedPathDrawer" ->
         {"downRight", "upLeft", "downU", "leftU", "rightU", "upU", "singleDot"}
    [] cls = "ExtraRoundedPathDrawer" ->
         {"rightUp", "leftDown", "downRight", "upLeft"}

RECURSIVE Owner(_, _)
Owner(cls, method) ==
  IF method \in Declares(cls) THEN cls ELSE Owner(Superclass(cls), method)

RECURSIVE Call(_, _, _)

\* the body of method as declared in class cls, run on a drawer of class
\* self with this.size = size
Body(cls, method, self, size) ==
  LET full == 2 * size
      half == size
  IN CASE cls = "PathDrawer" ->
         (CASE method = "right" -> right(full)
            [] method = "rightUp" -> right(full) \o up(full)
            [] method = "rightU" -> Call(self, "rightUp", size) \o left(full)
            [] method = "left" -> left(full)
            [] method = "leftDown" -> left(full) \o down(full)
            [] method = "leftU" -> Call(self, "leftDown", size) \o right(full)
            [] method = "down" -> down(full)
            [] method = "downRight" -> down(full) \o right(full)
            [] method = "downU" -> down(full) \o Call(self, "rightUp", size)
            [] method = "up" -> up(full)
            [] method = "upLeft" -> up(full) \o left(full)
            [] method = "upU" -> up(full) \o Call(self, "leftDown", size)
            [] method = "singleDot" ->
                 MoveBy(full, 0) \o Call(self, "leftDown", size)
                   \o Call(self, "rightUp", size))
       [] cls = "ClassyPathDrawer" ->
         (CASE method = "rightUp" -> right(half) \o rightUpArc(half) \o up(half)
            [] method = "leftDown" ->
                 left(half) \o leftDownArc(half) \o down(half))
       [] cls = "ClassyRoundedPathDrawer" ->
         (CASE method = "rightUp" -> rightUpArc(full)
            [] method = "leftDown" -> leftDownArc(full)
            [] method = "singleDot" ->
                 MoveBy(full, 0) \o left(half) \o leftDownArc(half) \o down(half)
                   \o right(half) \o rightUpArc(half) \o up(half))
       [] cls = "RoundedPathDrawer" ->
         (CASE method = "downRight" ->
                 down(half) \o downRightArc(half) \o right(half)
            [] method = "upLeft" -> up(half) \o upLeftArc(half) \o left(half)
            [] method = "downU" -> down(half) \o bottomUArc(full) \o up(half)
            [] method = "leftU" -> left(half) \o leftUArc(full) \o right(half)
            [] method = "rightU" -> right(half) \o rightUArc(full) \o left(half)
            [] method = "upU" -> up(half) \o topUArc(full) \o down(half)
            [] method = "singleDot" ->
                 MoveBy(half, 0) \o leftUArc(full) \o rightUArc(full))
       [] cls = "ExtraRoundedPathDrawer" ->
         (CASE method = "rightUp" -> rightUpArc(full)
            [] method = "leftDown" -> leftDownArc(full)
            [] method = "downRight" -> downRightArc(full)
            [] method = "upLeft" -> upLeftArc(full))

Call(self, method, size) == Body(Owner(self, method), method, self, size)

\* drawer.method() for the drawer of a style
Glyph(style, method, size) == Call(drawerFactory(style), method, size)

(***************************************************************************)
(* getDrawDirections: the method drawn for "arrived from origin, leaving   *)
(* towards next"; "null" where the table holds null.                       *)
(***************************************************************************)
Directions == {"left", "bottom", "right", "top"}

getDrawDirections(origin, next) ==
  CASE origin = "left" ->
         (CASE next = "right" -> "right"
            [] next = "bottom" -> "null"
            [] next = "left" -> "rightU"
            [] next = "top" -> "rightUp")
    [] origin = "right" ->
         (CASE next = "right" -> "leftU"
            [] next = "bottom" -> "leftDown"
            [] next = "left" -> "left"
            [] next = "top" -> "null")
    [] origin = "top" ->
         (CASE next = "right" -> "downRight"
            [] next = "bottom" -> "down"
            [] next = "left" -> "null"
            [] next = "top" -> "downU")
    [] origin = "bottom" ->
         (CASE next = "right" -> "null"
            [] next = "bottom" -> "upU"
            [] next = "left" -> "upLeft"
            [] next = "top" -> "up")

\* directions[origin][nextDirection]?.() ?? ""
TransitionGlyph(style, origin, next, size) ==
  IF getDrawDirections(origin, next) = "null"
  THEN << >>
  ELSE Glyph(style, getDrawDirections(origin, next), size)

(***************************************************************************)
(* determineNextDirection; "undefined" when find() finds nothing.          *)
(***************************************************************************)
NoDirection == "undefined"

\* determineNextDirection that starts its search at the origin itself
determineNextDirection_FromOrigin(origin, hasLeft, hasRight, hasTop, hasBottom) ==
  LET rotationOrder ==
        <<"left", "bottom", "right", "top", "left", "bottom", "right", "top">>
      \* rotationOrder.indexOf(origin), 0-based
      startIndex ==
        SetMin({i \in 0..7 : rotationOrder[i + 1] = origin})
      options == <<hasLeft, hasBottom, hasRight, hasTop>>
      found == {index \in 0..(7 - startIndex) :
                  options[((startIndex + index) % 4) + 1]}
  IN IF found = {}
     THEN NoDirection
     ELSE rotationOrder[startIndex + SetMin(found) + 1]

determineNextDirection(origin, hasLeft, hasRight, hasTop, hasBottom) ==
  LET rotationOrder ==
        <<"left", "bottom", "right", "top", "left", "bottom", "right", "top">>
      \* rotationOrder.indexOf(origin) + 1, 0-based
      startIndex ==
        SetMin({i \in 0..7 : rotationOrder[i + 1] = origin}) + 1
      options == <<hasLeft, hasBottom, hasRight, hasTop>>
      found == {index \in 0..(7 - startIndex) :
                  options[((startIndex + index) % 4) + 1]}
  IN IF found = {}
     THEN NoDirection
     ELSE rotationOrder[startIndex + SetMin(found) + 1]

\* the origin after a move towards nextDirection
Opposite(nextDirection) ==
  CASE nextDirection = "top" -> "bottom"
    [] nextDirection = "right" -> "left"
    [] nextDirection = "bottom" -> "top"
    [] nextDirection = "left" -> "right"

(***************************************************************************)
(* The state of one drawComponents call.                                   *)
(***************************************************************************)
VARIABLES
  dotsMask,       \* the boolean[][] handed to drawComponents
  style,          \* dotsOptions.type, the drawer in use
  dotSize,        \* this._dotSize
  offset,         \* [dx, dy]
  pc,             \* the position in drawComponents
  components,     \* label map of the foreground pass
  ids,            \* registry of the foreground pass
  backgroundComponents,  \* label map of the background pass
  backgroundIds,  \* registry of the background pass
  paths,          \* Map id -> outer contour, in insertion order
  backgroundPathsForComponent,  \* Map id -> list of background ids
  pathIndex,      \* position of the running loop over ids / paths
  holeIndex,      \* position of the running forEach over backgroundPaths
  fullPath,       \* the d string being assembled for the current element
  walk,           \* locals of the running renderComponentToPath call
  elements,       \* children appended to this._element, in order
  qr,             \* this._qr, the symbol encoder
  options,        \* this._options
  drawImageSize,  \* drawQR's local: the result of calculateImageSize
  mask,           \* buildDotsMask's local and result
  isDarkCalls,    \* the (row, col) pairs this._qr.isDark was called with
  thrown,         \* the error raised by the running call, if any
  frame,          \* the caller of the running drawComponents call
  args,           \* arguments of a direct call of one method
  result,         \* value returned by that call
  earlier,        \* what an earlier run of drawComponents produced
  inst,           \* the fields of a QRCodeStyling instance
  heap,           \* the builders, promises, canvases and containers it made
  jobs,           \* the microtask queue
  calls,          \* the asynchronous calls made on the instance
  task            \* what runs: the user's code, or the microtasks after it

\* the variables drawComponents does not touch
builderVars == <<qr, options, drawImageSize, mask, isDarkCalls, thrown, frame,
                 args, result, earlier>>

\* the variables of QRCodeStyling
stylingVars == <<inst, heap, jobs, calls, task>>

vars == <<dotsMask, style, dotSize, offset, pc, components, ids,
          backgroundComponents, backgroundIds, paths,
          backgroundPathsForComponent, pathIndex, holeIndex, fullPath, walk,
          elements, builderVars, stylingVars>>

\* every n x n mask
SquareMasks(n) == [1..n -> [1..n -> BOOLEAN]]

\* the mask m inside a closed one-cell frame of foreground cells
Framed(m) ==
  [r \in 1..(Len(m) + 2) |->
     [c \in 1..(Len(m) + 2) |->
        IF r = 1 \/ c = 1 \/ r = Len(m) + 2 \/ c = Len(m) + 2
        THEN TRUE
        ELSE m[r - 1][c - 1]]]

\* every mask of side n + 1 whose top-left n x n block is a closed ring of
\* foreground cells around background cells
Annexed(n) ==
  {[r \in 1..(n + 1) |->
      [c \in 1..(n + 1) |->
         IF r <= n /\ c <= n
         THEN r = 1 \/ r = n \/ c = 1 \/ c = n
         ELSE IF r = n + 1 THEN bottom[c] ELSE side[r]]] :
     bottom \in [1..(n + 1) -> BOOLEAN], side \in [1..n -> BOOLEAN]}

Masks ==
  (UNION {SquareMasks(n) : n \in 1..MaxDim})
    \cup {Framed(m) : m \in SquareMasks(MaxDim)}
    \cup Annexed(MaxDim)

\* the module size and the offset of the drawing inside the view box
Configs ==
  {[dotSize |-> 4, offset |-> [dx |-> 0, dy |-> 0]],
   [dotSize |-> 3, offset |-> [dx |-> 2, dy |-> 5]]}

NoWalk == [active |-> FALSE]

\* values of the builder's variables while no call uses them
NoEncoder == [count |-> 0, dark |-> {}, beyond |-> "light"]
NoOptions == [shape |-> "square"]
NoImageSize == [hideXDots |-> 0, hideYDots |-> 0, width |-> 0, height |-> 0]
NoFrame == [caller |-> "none"]
NoCall == [fn |-> "none"]
NoResult == [returned |-> FALSE]

\* no QRCodeStyling instance is in use
NoStyling ==
  /\ inst = [made |-> FALSE]
  /\ heap = [builders |-> << >>]
  /\ jobs = << >>
  /\ calls = << >>
  /\ task = "user"

\* a drawComponents call made directly on a builder
Standalone ==
  /\ qr = NoEncoder
  /\ options = NoOptions
  /\ drawImageSize = NoImageSize
  /\ mask = << >>
  /\ isDarkCalls = {}
  /\ thrown = "none"
  /\ frame = NoFrame
  /\ args = NoCall
  /\ result = NoResult
  /\ earlier = << >>
  /\ NoStyling

Init ==
  /\ dotsMask \in Masks
  /\ style \in Styles
  /\ \E cfg \in Configs :
       /\ dotSize = cfg.dotSize
       /\ offset = cfg.offset
  /\ pc = "drawComponents"
  /\ components = << >>
  /\ ids = << >>
  /\ backgroundComponents = << >>
  /\ backgroundIds = << >>
  /\ paths = << >>
  /\ backgroundPathsForComponent = [k \in {} |-> << >>]
  /\ pathIndex = 0
  /\ holeIndex = 0
  /\ fullPath = << >>
  /\ walk = NoWalk
  /\ elements = << >>
  /\ Standalone

(***************************************************************************)
(* drawComponents, lines 163-164: the two labelling passes.                *)
(***************************************************************************)
BuildComponents ==
  /\ pc = "drawComponents"
  /\ LET fg == buildConnectedComponents(dotsMask, FALSE, 4)
         bg == buildConnectedComponents(dotsMask, TRUE, 8)
     IN /\ components' = fg.components
        /\ ids' = fg.ids
        /\ backgroundComponents' = bg.components
        /\ backgroundIds' = bg.ids
  /\ pathIndex' = 1
  /\ pc' = "renderPaths"
  /\ UNCHANGED <<dotsMask, style, dotSize, offset, paths,
                 backgroundPathsForComponent, holeIndex, fullPath, walk,
                 elements,
                 builderVars,
                 stylingVars>>

(***************************************************************************)
(* renderComponentToPath, lines 395-411: everything before the loop.       *)
(***************************************************************************)
\* StartOrigin without the "start from the bottom" branch
StartOrigin_NoBottom(componentId, start, moveRight) ==
  IF Get(components, start.row, start.col + 1) = componentId /\ ~moveRight
  THEN "right"
  ELSE "top"

\* lines 396-408: the arrival orientation the walk starts with
StartOrigin(componentId, start, moveRight) ==
  IF Get(components, start.row, start.col + 1) = componentId /\ ~moveRight
  THEN "right"
  ELSE IF Get(components, start.row + 1, start.col) = componentId
  THEN "bottom"
  ELSE "top"

\* EnterRender that looks to the right also when moveRight is set
EnterRender_AsOuter(componentId, start, moveRight) ==
  LET move == MoveTo(2 * (start.col * dotSize + offset.dx),
                     2 * (start.row * dotSize + offset.dy))
      origin == StartOrigin(componentId, start, FALSE)
      path ==
        CASE origin = "right" -> move \o MoveBy(2 * dotSize, 0)
          [] origin = "bottom" -> move \o MoveBy(2 * dotSize, 2 * dotSize)
          [] origin = "top" -> move
  IN [active |-> TRUE,
      componentId |-> componentId,
      start |-> start,
      moveRight |-> moveRight,
      current |-> start,
      origin |-> origin,
      originalOrigin |-> origin,
      nextDirection |-> NoDirection,
      path |-> path,
      returned |-> FALSE,
      visited |-> {},
      iterations |-> 0]

\* lines 395-410: the locals of renderComponentToPath before its loop
EnterRender(componentId, start, moveRight) ==
  LET move == MoveTo(2 * (start.col * dotSize + offset.dx),
                     2 * (start.row * dotSize + offset.dy))
      origin == StartOrigin(componentId, start, moveRight)
      path ==
        CASE origin = "right" -> move \o MoveBy(2 * dotSize, 0)
          [] origin = "bottom" -> move \o MoveBy(2 * dotSize, 2 * dotSize)
          [] origin = "top" -> move
  IN [active |-> TRUE,
      componentId |-> componentId,
      start |-> start,
      moveRight |-> moveRight,
      current |-> start,
      origin |-> origin,
      originalOrigin |-> origin,
      nextDirection |-> NoDirection,
      path |-> path,
      returned |-> FALSE,
      visited |-> {},
      iterations |-> 0]

\* LoopCondition that compares the cell only
LoopCondition_CellOnly(w, moved, origin) ==
  \/ moved.row # w.start.row
  \/ moved.col # w.start.col

\* line 443: the condition of the do ... while
LoopCondition(w, moved, origin) ==
  \/ moved.row # w.start.row
  \/ moved.col # w.start.col
  \/ w.originalOrigin # origin

(***************************************************************************)
(* renderComponentToPath, lines 413-443: one iteration of the do loop.     *)
(* visited and iterations record the (cell, origin) pairs at which an      *)
(* iteration began; an iteration is only taken from a pair not seen        *)
(* before in this call.                                                    *)
(***************************************************************************)
LoopBody(w) ==
  LET current == w.current
      hasLeft == Get(components, current.row, current.col - 1) = w.componentId
      hasRight == Get(components, current.row, current.col + 1) = w.componentId
      hasTop == Get(components, current.row - 1, current.col) = w.componentId
      hasBottom == Get(components, current.row + 1, current.col) = w.componentId
      nextDirection ==
        determineNextDirection(w.origin, hasLeft, hasRight, hasTop, hasBottom)
      seen == [w EXCEPT !.visited = @ \cup {<<w.current, w.origin>>},
                        !.iterations = @ + 1,
                        !.nextDirection = nextDirection]
  IN IF nextDirection = NoDirection
     THEN [seen EXCEPT !.path = @ \o Glyph(style, "singleDot", dotSize),
                       !.returned = TRUE]
     ELSE
       LET moved ==
             CASE nextDirection = "left" ->
                    [current EXCEPT !.col = @ - 1]
               [] nextDirection = "bottom" ->
                    [current EXCEPT !.row = @ + 1]
               [] nextDirection = "right" ->
                    [current EXCEPT !.col = @ + 1]
               [] nextDirection = "top" ->
                    [current EXCEPT !.row = @ - 1]
           origin == Opposite(nextDirection)
       IN [seen EXCEPT
             !.path = @ \o TransitionGlyph(style, w.origin, nextDirection, dotSize),
             !.current = moved,
             !.origin = origin,
             !.returned = ~LoopCondition(w, moved, origin)]

WalkStep ==
  /\ pc = "walk"
  /\ ~walk.returned
  /\ <<walk.current, walk.origin>> \notin walk.visited
  /\ walk' = LoopBody(walk)
  /\ UNCHANGED <<dotsMask, style, dotSize, offset, pc, components, ids,
                 backgroundComponents, backgroundIds, paths,
                 backgroundPathsForComponent, pathIndex, holeIndex, fullPath,
                 elements,
                 builderVars,
                 stylingVars>>

(***************************************************************************)
(* drawComponents, lines 167-170: the loop over ids.                       *)
(***************************************************************************)
RenderOuter ==
  /\ pc = "renderPaths"
  /\ pathIndex <= Len(ids)
  /\ drawerFactory(style) # "undefined"
  /\ walk' = EnterRender(ids[pathIndex].id,
                         [row |-> ids[pathIndex].row, col |-> ids[pathIndex].col],
                         FALSE)
  /\ pc' = "walk"
  /\ UNCHANGED <<dotsMask, style, dotSize, offset, components, ids,
                 backgroundComponents, backgroundIds, paths,
                 backgroundPathsForComponent, pathIndex, holeIndex, fullPath,
                 elements,
                 builderVars,
                 stylingVars>>

StoreOuter ==
  /\ pc = "walk"
  /\ walk.returned
  /\ ~walk.moveRight
  /\ paths' = Append(paths, [id |-> walk.componentId, path |-> walk.path])
  /\ pathIndex' = pathIndex + 1
  /\ walk' = NoWalk
  /\ pc' = "renderPaths"
  /\ UNCHANGED <<dotsMask, style, dotSize, offset, components, ids,
                 backgroundComponents, backgroundIds,
                 backgroundPathsForComponent, holeIndex, fullPath, elements,
                 builderVars,
                 stylingVars>>

(***************************************************************************)
(* drawComponents, lines 172-182: backgroundPathsForComponent.             *)
(***************************************************************************)
\* Skipped with the bound on id off by one
Skipped_OffByOne(surroundingComponent, id) ==
  ~Truthy(surroundingComponent) \/ id <= 2

\* Skipped without the test of id
Skipped_AnyId(surroundingComponent, id) ==
  ~Truthy(surroundingComponent)

\* line 175: !surroundingComponent || id <= 1
Skipped(surroundingComponent, id) ==
  ~Truthy(surroundingComponent) \/ id <= 1

\* RegisterFrom that puts a new hole before the ones registered so far
RECURSIVE RegisterFrom_Prepend(_, _)
RegisterFrom_Prepend(acc, i) ==
  IF i > Len(backgroundIds)
  THEN acc
  ELSE
    LET startPosition == backgroundIds[i]
        id == backgroundIds[i].id
        surroundingComponent ==
          Get(components, startPosition.row, startPosition.col - 1)
    IN IF Skipped(surroundingComponent, id)
       THEN RegisterFrom_Prepend(acc, i + 1)
       ELSE RegisterFrom_Prepend(
              [k \in (DOMAIN acc) \cup {surroundingComponent} |->
                 IF k = surroundingComponent
                 THEN <<id>> \o (IF k \in DOMAIN acc THEN acc[k] ELSE << >>)
                 ELSE acc[k]],
              i + 1)

\* lines 173-182: the forEach over backgroundIds, from its i-th entry on
RECURSIVE RegisterFrom(_, _)
RegisterFrom(acc, i) ==
  IF i > Len(backgroundIds)
  THEN acc
  ELSE
    LET startPosition == backgroundIds[i]
        id == backgroundIds[i].id
        surroundingComponent ==
          Get(components, startPosition.row, startPosition.col - 1)
    IN IF Skipped(surroundingComponent, id)
       THEN RegisterFrom(acc, i + 1)
       ELSE RegisterFrom(
              [k \in (DOMAIN acc) \cup {surroundingComponent} |->
                 IF k = surroundingComponent
                 THEN Append(IF k \in DOMAIN acc THEN acc[k] ELSE << >>, id)
                 ELSE acc[k]],
              i + 1)

RegisterHoles ==
  /\ pc = "renderPaths"
  /\ pathIndex > Len(ids)
  /\ backgroundPathsForComponent' = RegisterFrom([k \in {} |-> << >>], 1)
  /\ pathIndex' = 1
  /\ pc' = "elements"
  /\ UNCHANGED <<dotsMask, style, dotSize, offset, components, ids,
                 backgroundComponents, backgroundIds, paths, holeIndex,
                 fullPath, walk, elements,
                 builderVars,
                 stylingVars>>

(***************************************************************************)
(* drawComponents, lines 184-205: one element per path, holes appended.    *)
(***************************************************************************)
\* BackgroundPaths that finds no hole for any component
BackgroundPaths_None(id) ==
  << >>

\* backgroundPathsForComponent.get(id) ?? []
BackgroundPaths(id) ==
  IF id \in DOMAIN backgroundPathsForComponent
  THEN backgroundPathsForComponent[id]
  ELSE << >>

\* backgroundIds.get(id)
BackgroundStart(id) ==
  LET i == CHOOSE j \in 1..Len(backgroundIds) : backgroundIds[j].id = id
  IN [row |-> backgroundIds[i].row, col |-> backgroundIds[i].col]

BeginElement ==
  /\ pc = "elements"
  /\ pathIndex <= Len(paths)
  /\ fullPath' = paths[pathIndex].path
  /\ holeIndex' = 1
  /\ pc' = "holes"
  /\ UNCHANGED <<dotsMask, style, dotSize, offset, components, ids,
                 backgroundComponents, backgroundIds, paths,
                 backgroundPathsForComponent, pathIndex, walk, elements,
                 builderVars,
                 stylingVars>>

RenderHole ==
  /\ pc = "holes"
  /\ holeIndex <= Len(BackgroundPaths(paths[pathIndex].id))
  /\ LET start == BackgroundStart(BackgroundPaths(paths[pathIndex].id)[holeIndex])
     IN walk' = EnterRender(paths[pathIndex].id,
                            [row |-> start.row - 1, col |-> start.col - 1],
                            TRUE)
  /\ pc' = "walk"
  /\ UNCHANGED <<dotsMask, style, dotSize, offset, components, ids,
                 backgroundComponents, backgroundIds, paths,
                 backgroundPathsForComponent, pathIndex, holeIndex, fullPath,
                 elements,
                 builderVars,
                 stylingVars>>

StoreHole ==
  /\ pc = "walk"
  /\ walk.returned
  /\ walk.moveRight
  /\ fullPath' = fullPath \o walk.path
  /\ holeIndex' = holeIndex + 1
  /\ walk' = NoWalk
  /\ pc' = "holes"
  /\ UNCHANGED <<dotsMask, style, dotSize, offset, components, ids,
                 backgroundComponents, backgroundIds, paths,
                 backgroundPathsForComponent, pathIndex, elements,
                 builderVars,
                 stylingVars>>

FillColor == "#000"

AppendElement ==
  /\ pc = "holes"
  /\ holeIndex > Len(BackgroundPaths(paths[pathIndex].id))
  /\ elements' = Append(elements,
                        [tag |-> "path",
                         fillRule |-> "evenodd",
                         d |-> fullPath,
                         fill |-> FillColor])
  /\ pathIndex' = pathIndex + 1
  /\ pc' = "elements"
  /\ UNCHANGED <<dotsMask, style, dotSize, offset, components, ids,
                 backgroundComponents, backgroundIds, paths,
                 backgroundPathsForComponent, holeIndex, fullPath, walk,
                 builderVars,
                 stylingVars>>

Finish ==
  /\ pc = "elements"
  /\ pathIndex > Len(paths)
  /\ pc' = "done"
  /\ UNCHANGED <<dotsMask, style, dotSize, offset, components, ids,
                 backgroundComponents, backgroundIds, paths,
                 backgroundPathsForComponent, pathIndex, holeIndex, fullPath,
                 walk, elements,
                 builderVars,
                 stylingVars>>

Next ==
  \/ BuildComponents
  \/ RenderOuter
  \/ WalkStep
  \/ StoreOuter
  \/ RegisterHoles
  \/ BeginElement
  \/ RenderHole
  \/ StoreHole
  \/ AppendElement
  \/ Finish

Spec == Init /\ [][Next]_vars

(***************************************************************************)
(* The builder around drawComponents: the encoder, the options and the     *)
(* view box.  options.width = options.height throughout, so the view box   *)
(* is a square of side (count * 4 + 2 * margin) * circleMultiplier.  For   *)
(* the circle that side is a multiple of sqrt(2); the model keeps its      *)
(* integer part, which is all _roundSize leaves of it when                 *)
(* dotsOptions.roundSize is set, and draws circles with roundSize set.     *)
(***************************************************************************)
\* the finder ring template
squareMask ==
  << <<TRUE, TRUE, TRUE, TRUE, TRUE, TRUE, TRUE>>,
     <<TRUE, FALSE, FALSE, FALSE, FALSE, FALSE, TRUE>>,
     <<TRUE, FALSE, FALSE, FALSE, FALSE, FALSE, TRUE>>,
     <<TRUE, FALSE, FALSE, FALSE, FALSE, FALSE, TRUE>>,
     <<TRUE, FALSE, FALSE, FALSE, FALSE, FALSE, TRUE>>,
     <<TRUE, FALSE, FALSE, FALSE, FALSE, FALSE, TRUE>>,
     <<TRUE, TRUE, TRUE, TRUE, TRUE, TRUE, TRUE>> >>

\* the finder centre template
dotMask ==
  << <<FALSE, FALSE, FALSE, FALSE, FALSE, FALSE, FALSE>>,
     <<FALSE, FALSE, FALSE, FALSE, FALSE, FALSE, FALSE>>,
     <<FALSE, FALSE, TRUE, TRUE, TRUE, FALSE, FALSE>>,
     <<FALSE, FALSE, TRUE, TRUE, TRUE, FALSE, FALSE>>,
     <<FALSE, FALSE, TRUE, TRUE, TRUE, FALSE, FALSE>>,
     <<FALSE, FALSE, FALSE, FALSE, FALSE, FALSE, FALSE>>,
     <<FALSE, FALSE, FALSE, FALSE, FALSE, FALSE, FALSE>> >>

\* m[row]?.[col] of a boolean array, read as a condition
Lit(m, row, col) ==
  /\ row >= 0
  /\ row < Len(m)
  /\ col >= 0
  /\ col < Len(m[row + 1])
  /\ m[row + 1][col + 1]

\* this._qr.getModuleCount()
moduleCount == qr.count

\* whether the encoder defines isDark(row, col)
InRange(row, col) ==
  row >= 0 /\ row < moduleCount /\ col >= 0 /\ col < moduleCount

\* this._qr.isDark(row, col) where the encoder answers
isDark(row, col) ==
  IF InRange(row, col) THEN <<row, col>> \in qr.dark ELSE qr.beyond = "dark"

\* the integer part of sqrt(n)
Isqrt(n) == CHOOSE k \in 0..n : k * k <= n /\ (k + 1) * (k + 1) > n

\* the integer part of Math.min(width, height) of this._viewboxSize
viewboxSize ==
  LET size == moduleCount * 4 + options.margin * 2
  IN IF options.shape = "circle"
     THEN Isqrt(2 * size * size)
     ELSE size

(***************************************************************************)
(* buildDotsMask, lines 259-305.                                           *)
(***************************************************************************)
\* filter that forgets the finder pattern of the top-right corner
filter_TwoCorners(centerImageSize, row, col) ==
  IF /\ options.hideBackgroundDots
     /\ 2 * row >= moduleCount - centerImageSize.hideYDots
     /\ 2 * row < moduleCount + centerImageSize.hideYDots
     /\ 2 * col >= moduleCount - centerImageSize.hideXDots
     /\ 2 * col < moduleCount + centerImageSize.hideXDots
  THEN FALSE
  ELSE IF \/ Lit(squareMask, row, col)
          \/ Lit(squareMask, row - moduleCount + 7, col)
  THEN FALSE
  ELSE IF \/ Lit(dotMask, row, col)
          \/ Lit(dotMask, row - moduleCount + 7, col)
  THEN FALSE
  ELSE TRUE

\* lines 263-292
filter(centerImageSize, row, col) ==
  IF /\ options.hideBackgroundDots
     /\ 2 * row >= moduleCount - centerImageSize.hideYDots
     /\ 2 * row < moduleCount + centerImageSize.hideYDots
     /\ 2 * col >= moduleCount - centerImageSize.hideXDots
     /\ 2 * col < moduleCount + centerImageSize.hideXDots
  THEN FALSE
  ELSE IF \/ Lit(squareMask, row, col)
          \/ Lit(squareMask, row - moduleCount + 7, col)
          \/ Lit(squareMask, row, col - moduleCount + 7)
  THEN FALSE
  ELSE IF \/ Lit(dotMask, row, col)
          \/ Lit(dotMask, row - moduleCount + 7, col)
          \/ Lit(dotMask, row, col - moduleCount + 7)
  THEN FALSE
  ELSE TRUE

\* lines 294-299: the mask filled row by row
MaskRows(centerImageSize) ==
  [row \in 1..moduleCount |->
     [col \in 1..moduleCount |->
        isDark(row - 1, col - 1) /\ filter(centerImageSize, row - 1, col - 1)]]

\* the isDark calls of lines 294-299
MaskCalls == {<<row, col>> : row \in 0..(moduleCount - 1),
                             col \in 0..(moduleCount - 1)}

(***************************************************************************)
(* expandDotsMaskWithCircle, lines 461-499.                                *)
(***************************************************************************)
\* lines 465-467, with _roundSize rounding down
additionalDots ==
  (viewboxSize - options.margin * 2 - moduleCount * dotSize) \div (2 * dotSize)

\* line 468
fakeCount == moduleCount + additionalDots * 2

\* line 470, for a mask of side fake
center(fake) == fake \div 2

\* lines 475-480: the band that is copied from dotsMask, for padding pad
InBand(pad, fake, row, col) ==
  /\ row >= pad - 1
  /\ row <= fake - pad
  /\ col >= pad - 1
  /\ col <= fake - pad

\* line 485: Math.sqrt(...) > center
OutsideCircle(fake, row, col) ==
  (row - center(fake)) * (row - center(fake))
    + (col - center(fake)) * (col - center(fake))
    > center(fake) * center(fake)

\* lines 492-493: the index handed to isDark for position i
SampleIndex(pad, i) ==
  IF i - 2 * pad < 0
  THEN i
  ELSE IF i >= moduleCount
  THEN i - 2 * pad
  ELSE i - pad

\* the arguments of the isDark call made for a sampled cell
SampleCall(pad, cell) == <<SampleIndex(pad, cell[2]), SampleIndex(pad, cell[1])>>

\* ExpandCell that copies from one row further down
ExpandCell_Shifted(dotsMaskArg, pad, fake, row, col) ==
  IF InBand(pad, fake, row, col)
  THEN Lit(dotsMaskArg, row - pad + 1, col - pad)
  ELSE IF OutsideCircle(fake, row, col)
  THEN FALSE
  ELSE isDark(SampleIndex(pad, col), SampleIndex(pad, row))

\* lines 475-494: the value stored in circularDotsMask[row][col]
ExpandCell(dotsMaskArg, pad, fake, row, col) ==
  IF InBand(pad, fake, row, col)
  THEN Lit(dotsMaskArg, row - pad, col - pad)
  ELSE IF OutsideCircle(fake, row, col)
  THEN FALSE
  ELSE isDark(SampleIndex(pad, col), SampleIndex(pad, row))

\* the call: whether the encoder threw, the mask returned otherwise, and the
\* isDark calls made (all of them, or those up to the refused one)
expandDotsMaskWithCircle(dotsMaskArg) ==
  LET pad == additionalDots
      fake == moduleCount + pad * 2
      sampled == {cell \in (0..(fake - 1)) \X (0..(fake - 1)) :
                    /\ ~InBand(pad, fake, cell[1], cell[2])
                    /\ ~OutsideCircle(fake, cell[1], cell[2])}
      refused == {cell \in sampled :
                    ~InRange(SampleCall(pad, cell)[1], SampleCall(pad, cell)[2])}
      failed == refused # {} /\ qr.beyond = "throws"
      last == IF failed
              THEN SetMin({cell[1] * fake + cell[2] : cell \in refused})
              ELSE fake * fake
  IN [failed |-> failed,
      value |-> IF failed
                THEN << >>
                ELSE [row \in 1..fake |->
                        [col \in 1..fake |->
                           ExpandCell(dotsMaskArg, pad, fake, row - 1, col - 1)]],
      calls |-> {SampleCall(pad, cell) :
                   cell \in {x \in sampled : x[1] * fake + x[2] <= last}}]

(***************************************************************************)
(* buildDotsMask and expandDotsMaskWithCircle as steps of the builder.     *)
(* mask is buildDotsMask's local array; result holds what the call         *)
(* returned to its caller.                                                 *)
(***************************************************************************)
\* where control continues once the mask is returned
AfterMask == IF frame.caller = "none" THEN "returned" ELSE "drawBackground"

BuildDotsMask ==
  /\ pc = "buildDotsMask"
  /\ mask' = MaskRows(drawImageSize)
  /\ isDarkCalls' = isDarkCalls \cup MaskCalls
  /\ IF options.shape = "circle"
     THEN /\ pc' = "expandDotsMaskWithCircle"
          /\ result' = result
     ELSE /\ pc' = AfterMask
          /\ result' = [returned |-> TRUE, value |-> mask']
  /\ UNCHANGED <<dotsMask, style, dotSize, offset, components, ids,
                 backgroundComponents, backgroundIds, paths,
                 backgroundPathsForComponent, pathIndex, holeIndex, fullPath,
                 walk, elements, qr, options, drawImageSize, thrown, frame,
                 args, earlier,
                 stylingVars>>

ExpandDotsMask ==
  /\ pc = "expandDotsMaskWithCircle"
  /\ LET expanded == expandDotsMaskWithCircle(mask)
     IN /\ isDarkCalls' = isDarkCalls \cup expanded.calls
        /\ IF expanded.failed
           THEN /\ thrown' = "isDark"
                /\ pc' = "rejected"
                /\ result' = result
           ELSE /\ thrown' = thrown
                /\ pc' = AfterMask
                /\ result' = [returned |-> TRUE, value |-> expanded.value]
  /\ UNCHANGED <<dotsMask, style, dotSize, offset, components, ids,
                 backgroundComponents, backgroundIds, paths,
                 backgroundPathsForComponent, pathIndex, holeIndex, fullPath,
                 walk, elements, qr, options, drawImageSize, mask, frame,
                 args, earlier,
                 stylingVars>>

\* the variables of drawComponents before any call of it
NoDrawing ==
  /\ dotsMask = << >>
  /\ style = "square"
  /\ offset = [dx |-> 0, dy |-> 0]
  /\ components = << >>
  /\ ids = << >>
  /\ backgroundComponents = << >>
  /\ backgroundIds = << >>
  /\ paths = << >>
  /\ backgroundPathsForComponent = [k \in {} |-> << >>]
  /\ pathIndex = 0
  /\ holeIndex = 0
  /\ fullPath = << >>
  /\ walk = NoWalk
  /\ elements = << >>

\* the cells of an n x n symbol
Modules(n) == (0..(n - 1)) \X (0..(n - 1))

\* dark modules spread over the symbol: every third value of a form in row
\* and col
Texture(n, a, b) ==
  {cell \in Modules(n) : (a * cell[1] + b * cell[2] + cell[1] * cell[2]) % 3 = 0}

\* the symbols handed to the builder
DarkSets(n) ==
  IF n <= 2
  THEN SUBSET Modules(n)
  ELSE {Modules(n), {}} \cup {Texture(n, a, b) : a \in 0..2, b \in 0..2}

ModuleCounts == 1..MaxCount

\* results of calculateImageSize
ImageSizes ==
  {[hideXDots |-> x, hideYDots |-> y, width |-> 4 * x, height |-> 4 * y] :
     x \in {1, 2}, y \in {1, 3}}

\* options.margin
Margins == {0, 5, 14, 40}

BuilderOptions(shape, margin, roundSize, hideBackgroundDots) ==
  [shape |-> shape,
   margin |-> margin,
   roundSize |-> roundSize,
   hideBackgroundDots |-> hideBackgroundDots,
   dotsType |-> "square",
   background |-> FALSE,
   image |-> FALSE,
   nodeCanvas |-> FALSE,
   cornersSquareType |-> "",
   cornersDotType |-> ""]

\* a call of buildDotsMask on a builder
InitBuildDotsMask ==
  /\ pc = "buildDotsMask"
  /\ \E n \in ModuleCounts :
       \E dark \in DarkSets(n) :
         \/ /\ qr = [count |-> n, dark |-> dark, beyond |-> "throws"]
            /\ dotSize = 4
            /\ \E roundSize \in BOOLEAN, hide \in BOOLEAN :
                 options = BuilderOptions("square", 0, roundSize, hide)
            /\ drawImageSize \in ImageSizes \cup {NoImageSize}
         \/ /\ qr \in {[count |-> n, dark |-> dark, beyond |-> b] :
                         b \in {"throws", "dark", "light"}}
            /\ dotSize \in {4, 3}
            /\ \E margin \in Margins :
                 options = BuilderOptions("circle", margin, TRUE, FALSE)
            /\ drawImageSize = NoImageSize
  /\ mask = << >>
  /\ args = [fn |-> "buildDotsMask"]

\* a call of expandDotsMaskWithCircle with a mask of the caller's
InitExpandDotsMask ==
  /\ pc = "expandDotsMaskWithCircle"
  /\ \E n \in 1..MaxDim :
       /\ mask \in SquareMasks(n)
       /\ qr \in {[count |-> n, dark |-> Texture(n, 1, 2), beyond |-> b] :
                    b \in {"throws", "light"}}
  /\ dotSize = 4
  /\ \E margin \in Margins :
       options = BuilderOptions("circle", margin, TRUE, FALSE)
  /\ drawImageSize = NoImageSize
  /\ args = [fn |-> "expandDotsMaskWithCircle", dotsMask |-> mask]

InitMask ==
  /\ InitBuildDotsMask \/ InitExpandDotsMask
  /\ NoDrawing
  /\ isDarkCalls = {}
  /\ thrown = "none"
  /\ frame = NoFrame
  /\ result = NoResult
  /\ earlier = << >>
  /\ NoStyling

NextMask ==
  \/ BuildDotsMask
  \/ ExpandDotsMask

SpecMask == InitMask /\ [][NextMask]_vars

(***************************************************************************)
(* drawQR, lines 89-130, and the methods it calls.  frame names the        *)
(* caller of the running drawComponents call and the position of the       *)
(* corner loop it was called from.  The builder keeps the _dotSize of its  *)
(* constructor here, so every offset is a whole number.                    *)
(***************************************************************************)
\* lines 97-100 with no image set
StartDrawQR ==
  /\ pc = "drawQR"
  /\ ~options.image
  /\ pc' = "buildDotsMask"
  /\ UNCHANGED <<dotsMask, style, dotSize, offset, components, ids,
                 backgroundComponents, backgroundIds, paths,
                 backgroundPathsForComponent, pathIndex, holeIndex, fullPath,
                 walk, elements, builderVars,
                 stylingVars>>

\* lines 97-112: loadImage resolves, calculateImageSize answers
LoadImageResolved ==
  /\ pc = "drawQR"
  /\ options.image
  /\ drawImageSize' \in ImageSizes
  /\ pc' = "buildDotsMask"
  /\ UNCHANGED <<dotsMask, style, dotSize, offset, components, ids,
                 backgroundComponents, backgroundIds, paths,
                 backgroundPathsForComponent, pathIndex, holeIndex, fullPath,
                 walk, elements, qr, options, mask, isDarkCalls, thrown,
                 frame, args, result, earlier,
                 stylingVars>>

\* lines 597-609: nodeCanvas.loadImage rejects, and so does drawQR
LoadImageRejected ==
  /\ pc = "drawQR"
  /\ options.image
  /\ options.nodeCanvas
  /\ thrown' = "loadImage"
  /\ pc' = "rejected"
  /\ UNCHANGED <<dotsMask, style, dotSize, offset, components, ids,
                 backgroundComponents, backgroundIds, paths,
                 backgroundPathsForComponent, pathIndex, holeIndex, fullPath,
                 walk, elements, qr, options, drawImageSize, mask,
                 isDarkCalls, frame, args, result, earlier,
                 stylingVars>>

\* lines 610-624: the image does not load; the Image has an onload handler
\* and no onerror handler, so nothing settles the promise of loadImage
LoadImageFails ==
  /\ pc = "drawQR"
  /\ options.image
  /\ ~options.nodeCanvas
  /\ pc' = "loadImage"
  /\ UNCHANGED <<dotsMask, style, dotSize, offset, components, ids,
                 backgroundComponents, backgroundIds, paths,
                 backgroundPathsForComponent, pathIndex, holeIndex, fullPath,
                 walk, elements, builderVars,
                 stylingVars>>

\* drawBackground, lines 223-257
DrawBackground ==
  /\ pc = "drawBackground"
  /\ elements' = IF options.background
                 THEN Append(elements, [tag |-> "rect"])
                 ELSE elements
  /\ pc' = "drawMainComponents"
  /\ UNCHANGED <<dotsMask, style, dotSize, offset, components, ids,
                 backgroundComponents, backgroundIds, paths,
                 backgroundPathsForComponent, pathIndex, holeIndex, fullPath,
                 walk, builderVars,
                 stylingVars>>

\* createCircleElement for the cell at (x, y): cx, cy and r in half units
Circle(x, y, size) ==
  [tag |-> "circle",
   cx |-> 2 * x + size,
   cy |-> 2 * y + size,
   r |-> size,
   fill |-> "#000"]

\* drawSingleDots that also draws the false cells
drawSingleDots_EveryCell(dotsMaskArg, offsetArg) ==
  LET raster == [k \in 1..RasterLen(dotsMaskArg) |->
                   <<RasterRow(dotsMaskArg, k - 1), RasterCol(dotsMaskArg, k - 1)>>]
  IN [i \in 1..Len(raster) |->
        Circle(offsetArg.dx + raster[i][2] * dotSize,
               offsetArg.dy + raster[i][1] * dotSize,
               dotSize)]

\* drawSingleDots, lines 208-221: the circles appended, in order
drawSingleDots(dotsMaskArg, offsetArg) ==
  LET raster == [k \in 1..RasterLen(dotsMaskArg) |->
                   <<RasterRow(dotsMaskArg, k - 1), RasterCol(dotsMaskArg, k - 1)>>]
      IsSet(cell) == dotsMaskArg[cell[1] + 1][cell[2] + 1]
      drawn == SelectSeq(raster, IsSet)
  IN [i \in 1..Len(drawn) |->
        Circle(offsetArg.dx + drawn[i][2] * dotSize,
               offsetArg.dy + drawn[i][1] * dotSize,
               dotSize)]

\* lines 145-148 and 509-510: _roundSize((width - n * this._dotSize) / 2)
Beginning(n) == (viewboxSize - n * dotSize) \div 2

\* a call of drawComponents: its arguments and fresh locals
CallDrawComponents(dotsMaskArg, offsetArg, styleArg, caller, index) ==
  /\ dotsMask' = dotsMaskArg
  /\ offset' = offsetArg
  /\ style' = styleArg
  /\ components' = << >>
  /\ ids' = << >>
  /\ backgroundComponents' = << >>
  /\ backgroundIds' = << >>
  /\ paths' = << >>
  /\ backgroundPathsForComponent' = [k \in {} |-> << >>]
  /\ pathIndex' = 0
  /\ holeIndex' = 0
  /\ fullPath' = << >>
  /\ walk' = NoWalk
  /\ frame' = [caller |-> caller, index |-> index]
  /\ pc' = "drawComponents"

\* drawMainComponents, lines 132-155
DrawMainComponents ==
  /\ pc = "drawMainComponents"
  /\ LET mainOffset == [dx |-> Beginning(Len(result.value)),
                        dy |-> Beginning(Len(result.value))]
     IN IF options.dotsType = "dots"
        THEN /\ elements' = elements \o drawSingleDots(result.value, mainOffset)
             /\ frame' = [caller |-> "drawQR", index |-> 1]
             /\ pc' = "cornerSquares"
             /\ UNCHANGED <<dotsMask, style, offset, components, ids,
                            backgroundComponents, backgroundIds, paths,
                            backgroundPathsForComponent, pathIndex, holeIndex,
                            fullPath, walk>>
        ELSE /\ CallDrawComponents(result.value, mainOffset, options.dotsType,
                                   "drawMainComponents", 0)
             /\ UNCHANGED elements
  /\ UNCHANGED <<dotSize, qr, options, drawImageSize, mask, isDarkCalls,
                 thrown, args, result, earlier,
                 stylingVars>>

\* line 411 with the undefined drawer of an unknown style: getDrawDirections
\* reads drawer.right
RenderThrows ==
  /\ pc = "renderPaths"
  /\ pathIndex <= Len(ids)
  /\ drawerFactory(style) = "undefined"
  /\ thrown' = "TypeError"
  /\ pc' = "rejected"
  /\ UNCHANGED <<dotsMask, style, dotSize, offset, components, ids,
                 backgroundComponents, backgroundIds, paths,
                 backgroundPathsForComponent, pathIndex, holeIndex, fullPath,
                 walk, elements, qr, options, drawImageSize, mask,
                 isDarkCalls, frame, args, result, earlier,
                 stylingVars>>

\* lines 512 and 550: options.type || this._options.dotsOptions.type
CornerType(type) == IF type # "" THEN type ELSE options.dotsType

\* lines 514-531: the three finder positions, left to right, top to bottom
Location(index) ==
  LET column == IF index = 2 THEN 1 ELSE 0
      row == IF index = 3 THEN 1 ELSE 0
  IN [dx |-> Beginning(moduleCount) + column * dotSize * (moduleCount - 7),
      dy |-> Beginning(moduleCount) + row * dotSize * (moduleCount - 7)]

\* createDonutElement
Donut(at, size) ==
  [tag |-> "path", clipRule |-> "evenodd", x |-> at.dx, y |-> at.dy,
   size |-> size, fill |-> "#000"]

\* lines 533-542: corner squares drawn as dots or as donuts
DrawCornerSquares ==
  /\ pc = "cornerSquares"
  /\ CornerType(options.cornersSquareType) \in {"dots", "dot"}
  /\ elements' =
       IF CornerType(options.cornersSquareType) = "dots"
       THEN elements \o drawSingleDots(squareMask, Location(1))
              \o drawSingleDots(squareMask, Location(2))
              \o drawSingleDots(squareMask, Location(3))
       ELSE elements \o <<Donut(Location(1), dotSize * 7),
                          Donut(Location(2), dotSize * 7),
                          Donut(Location(3), dotSize * 7)>>
  /\ frame' = [caller |-> "drawQR", index |-> 1]
  /\ pc' = "cornerDots"
  /\ UNCHANGED <<dotsMask, style, dotSize, offset, components, ids,
                 backgroundComponents, backgroundIds, paths,
                 backgroundPathsForComponent, pathIndex, holeIndex, fullPath,
                 walk, qr, options, drawImageSize, mask, isDarkCalls, thrown,
                 args, result, earlier,
                 stylingVars>>

\* lines 543-548: one drawComponents call of the loop over the locations
CallCornerSquare ==
  /\ pc = "cornerSquares"
  /\ CornerType(options.cornersSquareType) \notin {"dots", "dot"}
  /\ CallDrawComponents(squareMask, Location(frame.index),
                        CornerType(options.cornersSquareType),
                        "cornerSquare", frame.index)
  /\ UNCHANGED <<dotSize, elements, qr, options, drawImageSize, mask,
                 isDarkCalls, thrown, args, result, earlier,
                 stylingVars>>

\* lines 571-580: corner dots drawn as dots or as circles
DrawCornerDots ==
  /\ pc = "cornerDots"
  /\ CornerType(options.cornersDotType) \in {"dots", "dot"}
  /\ elements' =
       IF CornerType(options.cornersDotType) = "dots"
       THEN elements \o drawSingleDots(dotMask, Location(1))
              \o drawSingleDots(dotMask, Location(2))
              \o drawSingleDots(dotMask, Location(3))
       ELSE elements
              \o <<Circle(Location(1).dx + dotSize * 2,
                          Location(1).dy + dotSize * 2, dotSize * 3),
                   Circle(Location(2).dx + dotSize * 2,
                          Location(2).dy + dotSize * 2, dotSize * 3),
                   Circle(Location(3).dx + dotSize * 2,
                          Location(3).dy + dotSize * 2, dotSize * 3)>>
  /\ pc' = "drawImage"
  /\ UNCHANGED <<dotsMask, style, dotSize, offset, components, ids,
                 backgroundComponents, backgroundIds, paths,
                 backgroundPathsForComponent, pathIndex, holeIndex, fullPath,
                 walk, builderVars,
                 stylingVars>>

\* lines 581-586: one drawComponents call of the loop over the locations
CallCornerDot ==
  /\ pc = "cornerDots"
  /\ CornerType(options.cornersDotType) \notin {"dots", "dot"}
  /\ CallDrawComponents(dotMask, Location(frame.index),
                        CornerType(options.cornersDotType),
                        "cornerDot", frame.index)
  /\ UNCHANGED <<dotSize, elements, qr, options, drawImageSize, mask,
                 isDarkCalls, thrown, args, result, earlier,
                 stylingVars>>

\* drawComponents returns to drawMainComponents or to a loop of drawCorners
ReturnToDrawQR ==
  /\ pc = "done"
  /\ frame.caller \in {"drawMainComponents", "cornerSquare", "cornerDot"}
  /\ IF frame.caller = "drawMainComponents"
     THEN /\ pc' = "cornerSquares"
          /\ frame' = [caller |-> "drawQR", index |-> 1]
     ELSE IF frame.index < 3
     THEN /\ pc' = IF frame.caller = "cornerSquare"
                   THEN "cornerSquares"
                   ELSE "cornerDots"
          /\ frame' = [caller |-> "drawQR", index |-> frame.index + 1]
     ELSE /\ pc' = IF frame.caller = "cornerSquare"
                   THEN "cornerDots"
                   ELSE "drawImage"
          /\ frame' = [caller |-> "drawQR", index |-> 1]
  /\ UNCHANGED <<dotsMask, style, dotSize, offset, components, ids,
                 backgroundComponents, backgroundIds, paths,
                 backgroundPathsForComponent, pathIndex, holeIndex, fullPath,
                 walk, elements, qr, options, drawImageSize, mask,
                 isDarkCalls, thrown, args, result, earlier,
                 stylingVars>>

\* lines 122-129 and drawImage, lines 629-658
FinishDrawQR ==
  /\ pc = "drawImage"
  /\ elements' = IF options.image
                 THEN Append(elements, [tag |-> "image"])
                 ELSE elements
  /\ pc' = "resolved"
  /\ UNCHANGED <<dotsMask, style, dotSize, offset, components, ids,
                 backgroundComponents, backgroundIds, paths,
                 backgroundPathsForComponent, pathIndex, holeIndex, fullPath,
                 walk, builderVars,
                 stylingVars>>

\* dotsOptions.type as the caller may set it; "star" is no style
DotTypes == Styles \cup {"dots", "star"}

\* cornersSquareOptions.type and cornersDotOptions.type; "" when not set
CornerTypes == {"", "dot", "dots", "extra-rounded", "star"}

\* module counts of symbols: 1 more than a multiple of 4
SymbolCounts == {n \in ModuleCounts : n % 4 = 1}

Symbol(n, dark) == [count |-> n, dark |-> dark, beyond |-> "throws"]

\* the builders on which drawQR is called
InitDrawQR ==
  \/ /\ \E n \in SymbolCounts : \E dark \in DarkSets(n) : qr = Symbol(n, dark)
     /\ \E type \in DotTypes, background \in BOOLEAN :
          options = [BuilderOptions("square", 0, TRUE, FALSE) EXCEPT
                       !.dotsType = type, !.background = background]
  \/ /\ qr \in {Symbol(5, {}), Symbol(5, Modules(5))}
     /\ \E type \in {"square", "star"}, cs \in CornerTypes, cd \in CornerTypes :
          options = [BuilderOptions("square", 5, FALSE, FALSE) EXCEPT
                       !.dotsType = type,
                       !.background = TRUE,
                       !.cornersSquareType = cs,
                       !.cornersDotType = cd]
  \/ /\ qr = Symbol(9, Modules(9))
     /\ \E type \in {"classy", "dots"}, nodeCanvas \in BOOLEAN, hide \in BOOLEAN :
          options = [BuilderOptions("square", 0, TRUE, hide) EXCEPT
                       !.dotsType = type,
                       !.image = TRUE,
                       !.nodeCanvas = nodeCanvas]
  \/ /\ qr \in {[count |-> 5, dark |-> Texture(5, 1, 2), beyond |-> b] :
                  b \in {"throws", "light"}}
            \cup {Symbol(9, Modules(9))}
     /\ \E type \in {"rounded", "dots"},
           margin \in IF qr.count = 5 THEN {0, 5} ELSE {0} :
          options = [BuilderOptions("circle", margin, TRUE, FALSE) EXCEPT
                       !.dotsType = type]

InitQR ==
  /\ pc = "drawQR"
  /\ InitDrawQR
  /\ dotSize = 4
  /\ NoDrawing
  /\ drawImageSize = NoImageSize
  /\ mask = << >>
  /\ isDarkCalls = {}
  /\ thrown = "none"
  /\ frame = [caller |-> "drawQR", index |-> 0]
  /\ args = [fn |-> "drawQR"]
  /\ result = NoResult
  /\ earlier = << >>
  /\ NoStyling

NextQR ==
  \/ StartDrawQR
  \/ LoadImageResolved
  \/ LoadImageRejected
  \/ BuildDotsMask
  \/ ExpandDotsMask
  \/ DrawBackground
  \/ DrawMainComponents
  \/ BuildComponents
  \/ RenderOuter
  \/ RenderThrows
  \/ WalkStep
  \/ StoreOuter
  \/ RegisterHoles
  \/ BeginElement
  \/ RenderHole
  \/ StoreHole
  \/ AppendElement
  \/ Finish
  \/ ReturnToDrawQR
  \/ DrawCornerSquares
  \/ CallCornerSquare
  \/ DrawCornerDots
  \/ CallCornerDot
  \/ FinishDrawQR

SpecQR == InitQR /\ [][NextQR]_vars

\* drawQR on the builder of a symbol with an image, which may fail to load
InitLoad ==
  /\ pc = "drawQR"
  /\ \E dark \in DarkSets(5) : qr = Symbol(5, dark)
  /\ \E type \in {"classy", "dots"}, nodeCanvas \in BOOLEAN, hide \in BOOLEAN :
       options = [BuilderOptions("square", 0, TRUE, hide) EXCEPT
                    !.dotsType = type,
                    !.image = TRUE,
                    !.nodeCanvas = nodeCanvas]
  /\ dotSize = 4
  /\ NoDrawing
  /\ drawImageSize = NoImageSize
  /\ mask = << >>
  /\ isDarkCalls = {}
  /\ thrown = "none"
  /\ frame = [caller |-> "drawQR", index |-> 0]
  /\ args = [fn |-> "drawQR"]
  /\ result = NoResult
  /\ earlier = << >>
  /\ NoStyling

\* the steps of such a drawQR
NextLoad ==
  \/ LoadImageResolved
  \/ LoadImageRejected
  \/ LoadImageFails
  \/ BuildDotsMask
  \/ DrawBackground
  \/ DrawMainComponents
  \/ BuildComponents
  \/ RenderOuter
  \/ WalkStep
  \/ StoreOuter
  \/ RegisterHoles
  \/ BeginElement
  \/ RenderHole
  \/ StoreHole
  \/ AppendElement
  \/ Finish
  \/ ReturnToDrawQR
  \/ DrawCornerSquares
  \/ CallCornerSquare
  \/ DrawCornerDots
  \/ CallCornerDot
  \/ FinishDrawQR

\* BuildComponents has no guard but its position: the code can leave
\* "drawComponents" whenever it is there
LeavesDrawComponents ==
  /\ pc = "drawComponents"
  /\ pc' = "renderPaths"
  /\ UNCHANGED <<dotsMask, style, dotSize, offset, components, ids,
                 backgroundComponents, backgroundIds, paths,
                 backgroundPathsForComponent, pathIndex, holeIndex, fullPath,
                 walk, elements, builderVars, stylingVars>>

\* the steps that are taken when they can be: drawQR runs on to its next
\* await or to its end without being interrupted, and the loader ends each
\* load, with the image or without.  The step out of "drawComponents" is
\* named by its position alone.
RunsOn ==
  \/ LoadImageResolved
  \/ LoadImageRejected
  \/ LoadImageFails
  \/ BuildDotsMask
  \/ DrawBackground
  \/ DrawMainComponents
  \/ LeavesDrawComponents
  \/ RenderOuter
  \/ WalkStep
  \/ StoreOuter
  \/ RegisterHoles
  \/ BeginElement
  \/ RenderHole
  \/ StoreHole
  \/ AppendElement
  \/ Finish
  \/ ReturnToDrawQR
  \/ DrawCornerSquares
  \/ CallCornerSquare
  \/ DrawCornerDots
  \/ CallCornerDot
  \/ FinishDrawQR

SpecLoad == InitLoad /\ [][NextLoad]_vars /\ WF_vars(RunsOn)

(***************************************************************************)
(* drawComponents called a second time with the arguments of a finished    *)
(* call, on the same builder (whose root keeps the elements of the first   *)
(* call) or on a new one.  earlier keeps what the first call produced and  *)
(* how many elements the root held when the second call began.             *)
(***************************************************************************)
Produced(kept) ==
  [components |-> components,
   ids |-> ids,
   backgroundComponents |-> backgroundComponents,
   backgroundIds |-> backgroundIds,
   paths |-> paths,
   elements |-> elements,
   kept |-> kept]

\* Rerun whose second call finds the paths of the first
Rerun_KeepsPaths ==
  /\ pc = "done"
  /\ earlier = << >>
  /\ \E sameBuilder \in BOOLEAN :
       /\ elements' = IF sameBuilder THEN elements ELSE << >>
       /\ earlier' = Produced(Len(elements'))
  /\ components' = << >>
  /\ ids' = << >>
  /\ backgroundComponents' = << >>
  /\ backgroundIds' = << >>
  /\ backgroundPathsForComponent' = [k \in {} |-> << >>]
  /\ pathIndex' = 0
  /\ holeIndex' = 0
  /\ fullPath' = << >>
  /\ walk' = NoWalk
  /\ frame' = [caller |-> "none", index |-> 0]
  /\ pc' = "drawComponents"
  /\ UNCHANGED <<dotsMask, style, offset, paths, dotSize, qr, options,
                 drawImageSize, mask, isDarkCalls, thrown, args, result,
                 stylingVars>>

\* lines 157-166: the second call begins, its locals fresh
Rerun ==
  /\ pc = "done"
  /\ earlier = << >>
  /\ \E sameBuilder \in BOOLEAN :
       /\ elements' = IF sameBuilder THEN elements ELSE << >>
       /\ earlier' = Produced(Len(elements'))
  /\ CallDrawComponents(dotsMask, offset, style, "none", 0)
  /\ UNCHANGED <<dotSize, qr, options, drawImageSize, mask, isDarkCalls,
                 thrown, args, result,
                 stylingVars>>

NextTwice ==
  \/ Next
  \/ Rerun

\* the first call: a direct call on a builder with the _dotSize of line 53
InitTwice ==
  /\ Init
  /\ dotSize = 4

SpecTwice == InitTwice /\ [][NextTwice]_vars

(***************************************************************************)
(* Direct calls of determineNextDirection and of a drawer's methods: args  *)
(* holds the arguments of the call, result what it returned.               *)
(***************************************************************************)
\* determineNextDirection, lines 448-459
ApplyDetermineNextDirection ==
  /\ pc = "call"
  /\ args.fn = "determineNextDirection"
  /\ result' = [returned |-> TRUE,
                value |-> determineNextDirection(args.origin, args.hasLeft,
                                                 args.hasRight, args.hasTop,
                                                 args.hasBottom)]
  /\ pc' = "returned"
  /\ UNCHANGED <<dotsMask, style, dotSize, offset, components, ids,
                 backgroundComponents, backgroundIds, paths,
                 backgroundPathsForComponent, pathIndex, holeIndex, fullPath,
                 walk, elements, qr, options, drawImageSize, mask,
                 isDarkCalls, thrown, frame, args, earlier,
                 stylingVars>>

\* drawerFactory(style, size).method()
ApplyDrawerMethod ==
  /\ pc = "call"
  /\ args.fn = "drawer"
  /\ result' = [returned |-> TRUE,
                value |-> Glyph(args.style, args.method, args.size)]
  /\ pc' = "returned"
  /\ UNCHANGED <<dotsMask, style, dotSize, offset, components, ids,
                 backgroundComponents, backgroundIds, paths,
                 backgroundPathsForComponent, pathIndex, holeIndex, fullPath,
                 walk, elements, qr, options, drawImageSize, mask,
                 isDarkCalls, thrown, frame, args, earlier,
                 stylingVars>>

\* buildConnectedComponents(dotsMask, true, 8), lines 307-385
ApplyBuildConnectedComponents ==
  /\ pc = "call"
  /\ args.fn = "buildConnectedComponents"
  /\ result' = [returned |-> TRUE,
                value |-> buildConnectedComponents(args.dotsMask, args.invert,
                                                   args.connectedness)]
  /\ pc' = "returned"
  /\ UNCHANGED <<dotsMask, style, dotSize, offset, components, ids,
                 backgroundComponents, backgroundIds, paths,
                 backgroundPathsForComponent, pathIndex, holeIndex, fullPath,
                 walk, elements, qr, options, drawImageSize, mask,
                 isDarkCalls, thrown, frame, args, earlier,
                 stylingVars>>

\* the mask m, of any shape, inside a closed one-cell frame of foreground
\* cells
FramedRect(m) ==
  [r \in 1..(Len(m) + 2) |->
     [c \in 1..(Len(m[1]) + 2) |->
        IF r = 1 \/ c = 1 \/ r = Len(m) + 2 \/ c = Len(m[1]) + 2
        THEN TRUE
        ELSE m[r - 1][c - 1]]]

\* masks with more columns than rows and with more rows than columns
RectMasks ==
  {FramedRect(m) : m \in [1..2 -> [1..MaxRect -> BOOLEAN]]
                         \cup [1..MaxRect -> [1..2 -> BOOLEAN]]}
    \cup [1..2 -> [1..3 -> BOOLEAN]]
    \cup [1..3 -> [1..2 -> BOOLEAN]]

\* the calls made: every origin with every combination of flags, and every
\* method of every drawer for the module sizes up to MaxSize
Calls ==
  {[fn |-> "determineNextDirection", origin |-> origin, hasLeft |-> l,
    hasRight |-> r, hasTop |-> t, hasBottom |-> b] :
     origin \in Directions, l \in BOOLEAN, r \in BOOLEAN, t \in BOOLEAN,
     b \in BOOLEAN}
    \cup {[fn |-> "drawer", style |-> s, method |-> m, size |-> size] :
            s \in Styles, m \in Methods, size \in 1..MaxSize}
    \cup {[fn |-> "buildConnectedComponents", dotsMask |-> m,
            invert |-> TRUE, connectedness |-> 8] : m \in RectMasks}

InitCall ==
  /\ pc = "call"
  /\ args \in Calls
  /\ result = NoResult
  /\ dotSize = 4
  /\ NoDrawing
  /\ qr = NoEncoder
  /\ options = NoOptions
  /\ drawImageSize = NoImageSize
  /\ mask = << >>
  /\ isDarkCalls = {}
  /\ thrown = "none"
  /\ frame = NoFrame
  /\ earlier = << >>
  /\ NoStyling

NextCall ==
  \/ ApplyDetermineNextDirection
  \/ ApplyDrawerMethod
  \/ ApplyBuildConnectedComponents

SpecCall == InitCall /\ [][NextCall]_vars

(***************************************************************************)
(* QRCodeStyling.  inst holds the fields of one instance; its objects live *)
(* in heap and are named by their position there (0 is undefined):         *)
(*   symbols   the QR symbols made by update, each the data it encodes;    *)
(*   builders  the QRSVGBuilders made by _setupSvg, with the state of the  *)
(*             promise of drawQR, the state of _svgDrawingPromise and the  *)
(*             number of times the extension was called on the element;    *)
(*   promises  the _canvasDrawingPromises made by _setupCanvas, each with  *)
(*             the builder whose _svgDrawingPromise it is chained to;      *)
(*   canvases  the canvases, each with what was last drawn onto it;        *)
(*   children  the children of the container node.                         *)
(* jobs is the microtask queue, first in, first out.  The methods are      *)
(* operators on q = [inst, heap, jobs].                                    *)
(***************************************************************************)
\* nothing serialized
NoSnapshot ==
  [svg |-> 0, qr |-> 0, drawn |-> FALSE, called |-> FALSE]

\* what serializeToString(this._svg) sees
Snapshot(q) ==
  LET b == q.inst.svg
  IN [svg |-> b,
      qr |-> q.heap.builders[b].qr,
      drawn |-> q.heap.builders[b].drawQR = "resolved",
      called |-> q.heap.builders[b].promise = "fulfilled"]

\* lines 44-55; drawQR has no await unless options.image is set, so without
\* an image its promise is resolved when _setupSvg returns
setupSvg(q) ==
  IF q.inst.qr = 0
  THEN q
  ELSE
    LET b == Len(q.heap.builders) + 1
        drawn == IF q.inst.image THEN "pending" ELSE "resolved"
    IN [inst |-> [q.inst EXCEPT !.svg = b, !.svgDrawingPromise = b],
        heap |-> [q.heap EXCEPT
                    !.builders = Append(@, [qr |-> q.inst.qr,
                                            drawQR |-> drawn,
                                            promise |-> "pending",
                                            extended |-> 0])],
        jobs |-> IF drawn = "resolved"
                 THEN Append(q.jobs, [kind |-> "svg", id |-> b])
                 ELSE q.jobs]

\* lines 57-103
setupCanvas(q) ==
  IF q.inst.qr = 0
  THEN q
  ELSE
    LET c == Len(q.heap.canvases) + 1
        made == [inst |-> IF q.inst.nodeCanvas
                          THEN [q.inst EXCEPT !.nodeCanvasObject = c]
                          ELSE [q.inst EXCEPT !.domCanvas = c],
                 heap |-> [q.heap EXCEPT
                             !.canvases =
                                Append(@, [kind |-> IF q.inst.nodeCanvas
                                                    THEN "node" ELSE "dom",
                                           content |-> NoSnapshot])],
                 jobs |-> q.jobs]
        svg == setupSvg(made)
        k == Len(svg.heap.promises) + 1
    IN [inst |-> [svg.inst EXCEPT !.canvasDrawingPromise = k],
        heap |-> [svg.heap EXCEPT
                    !.promises = Append(@, [on |-> svg.inst.svgDrawingPromise,
                                            state |-> "pending",
                                            serialized |-> NoSnapshot])],
        jobs |-> svg.jobs]

\* container.appendChild(node): a node that is a child already is moved
appendChild(children, node) ==
  Append(SelectSeq(children, LAMBDA n : n # node), node)

\* append, lines 144-164, for a container that is undefined or a DOM node
appendElement(q, container) ==
  IF container = "undefined"
  THEN q
  ELSE
    LET node == IF q.inst.type = "canvas"
                THEN <<"canvas", q.inst.domCanvas>>
                ELSE <<"svg", q.inst.svg>>
    IN [q EXCEPT
          !.heap.children = IF node[2] # 0 THEN appendChild(@, node) ELSE @,
          !.inst.container = container]

\* _clearContainer that leaves the children of the container in place
clearContainer_Keep(q) == q

\* _clearContainer, lines 38-42
clearContainer(q) ==
  IF q.inst.container = "undefined"
  THEN q
  ELSE [q EXCEPT !.heap.children = << >>]

\* update that makes the symbol and the drawing before it looks at data
update_NoDataTest(q, data) ==
  LET cleared == clearContainer(q)
      merged == IF data = "keep"
                THEN cleared
                ELSE [cleared EXCEPT !.inst.data = data]
      made == [merged EXCEPT
                 !.heap.symbols = Append(@, merged.inst.data),
                 !.inst.qr = Len(merged.heap.symbols) + 1]
      set == IF made.inst.type = "canvas"
             THEN setupCanvas(made)
             ELSE setupSvg(made)
  IN appendElement(set, set.inst.container)

\* update, lines 123-142; data is the data of the options given, or "keep"
\* when the options leave data alone
update(q, data) ==
  LET cleared == clearContainer(q)
      merged == IF data = "keep"
                THEN cleared
                ELSE [cleared EXCEPT !.inst.data = data]
  IN IF merged.inst.data = ""
     THEN merged
     ELSE
       LET made == [merged EXCEPT
                      !.heap.symbols = Append(@, merged.inst.data),
                      !.inst.qr = Len(merged.heap.symbols) + 1]
           set == IF made.inst.type = "canvas"
                  THEN setupCanvas(made)
                  ELSE setupSvg(made)
       IN appendElement(set, set.inst.container)

\* the variables QRCodeStyling does not use
builderOnly == <<dotsMask, style, dotSize, offset, pc, components, ids,
                 backgroundComponents, backgroundIds, paths,
                 backgroundPathsForComponent, pathIndex, holeIndex, fullPath,
                 walk, elements, qr, options, drawImageSize, mask,
                 isDarkCalls, frame, args, earlier>>

Now == [inst |-> inst, heap |-> heap, jobs |-> jobs]

Becomes(q) ==
  /\ inst' = q.inst
  /\ heap' = q.heap
  /\ jobs' = q.jobs

\* the microtasks run until the queue is empty; then the user's code may
\* run again
Runs == task' = IF jobs' = << >> THEN "user" ELSE "microtasks"

\* a synchronous method returns
Returns ==
  /\ thrown' = "none"
  /\ result' = NoResult

\* a synchronous method throws, or an asynchronous one rejects
Throws(error) ==
  /\ thrown' = error
  /\ result' = NoResult

\* the data the options hold once `data` is merged into them
Merged(data) == IF data = "keep" THEN inst.data ELSE data

NoPromise == [kind |-> "none", id |-> 0]

\* no call is running in this place of `calls`
NoAsync ==
  [fn |-> "none", extension |-> "none", state |-> "free",
   awaits |-> NoPromise, element |-> <<"none", 0>>]

\* the calls that wait for promise p, as jobs that resume them
Resumed(p) ==
  LET waiting == SelectSeq([c \in 1..MaxCalls |-> c],
                           LAMBDA c : /\ calls[c].state = "awaiting"
                                      /\ calls[c].awaits = p)
  IN [i \in 1..Len(waiting) |-> [kind |-> "resume", id |-> waiting[i]]]

\* the canvas promises chained to the drawing promise of builder b, as jobs
Chained(b) ==
  LET chained == SelectSeq([k \in 1..Len(heap.promises) |-> k],
                           LAMBDA k : /\ heap.promises[k].on = b
                                      /\ heap.promises[k].state = "pending")
  IN [i \in 1..Len(chained) |-> [kind |-> "canvas", id |-> chained[i]]]

\* update(options), lines 123-142, called by the user
Update(data) ==
  /\ inst.made
  /\ task = "user"
  /\ Merged(data) # "" => Len(heap.symbols) < MaxSymbols
  /\ Becomes(update(Now, data))
  /\ Returns
  /\ UNCHANGED <<calls, task, builderOnly>>

\* append(container), lines 144-164: "string" is a value without
\* appendChild
AppendTo(container) ==
  /\ inst.made
  /\ task = "user"
  /\ IF container = "string"
     THEN /\ Throws("Container should be a single DOM node")
          /\ UNCHANGED <<inst, heap, jobs>>
     ELSE /\ Returns
          /\ Becomes(appendElement(Now, container))
  /\ UNCHANGED <<calls, task, builderOnly>>

\* applyExtension(extension), lines 166-173
ApplyExtension(extension) ==
  /\ inst.made
  /\ task = "user"
  /\ IF extension = "undefined"
     THEN /\ Throws("Extension function should be defined.")
          /\ UNCHANGED <<inst, heap, jobs>>
     ELSE /\ inst.data # "" => Len(heap.symbols) < MaxSymbols
          /\ Returns
          /\ Becomes(update([Now EXCEPT !.inst.extension = TRUE], "keep"))
  /\ UNCHANGED <<calls, task, builderOnly>>

\* deleteExtension(), lines 175-178
DeleteExtension ==
  /\ inst.made
  /\ task = "user"
  /\ inst.data # "" => Len(heap.symbols) < MaxSymbols
  /\ Becomes(update([Now EXCEPT !.inst.extension = FALSE], "keep"))
  /\ Returns
  /\ UNCHANGED <<calls, task, builderOnly>>

\* the promise _getElement awaits
Awaited(q, extension) ==
  IF extension = "svg"
  THEN [kind |-> "svg", id |-> q.inst.svgDrawingPromise]
  ELSE [kind |-> "canvas", id |-> q.inst.canvasDrawingPromise]

Settled(q, p) ==
  IF p.kind = "svg"
  THEN q.heap.builders[p.id].promise # "pending"
  ELSE q.heap.promises[p.id].state \in {"fulfilled", "rejected"}

\* _getElement up to its await, lines 105-121
getElement(q, extension) ==
  IF extension = "svg"
  THEN IF q.inst.svg = 0 \/ q.inst.svgDrawingPromise = 0
       THEN setupSvg(q)
       ELSE q
  ELSE IF (q.inst.domCanvas = 0 /\ q.inst.nodeCanvasObject = 0)
            \/ q.inst.canvasDrawingPromise = 0
       THEN setupCanvas(q)
       ELSE q

\* fn(extension) is called, for fn one of _getElement, getRawData and
\* download (lines 105-121, 180-217, 219-244), and runs until its first
\* await; Blob is taken to be defined
CallAsync(fn, extension) ==
  /\ inst.made
  /\ task = "user"
  /\ IF inst.qr = 0
     THEN /\ Throws("QR code is empty")
          /\ UNCHANGED <<inst, heap, jobs, calls>>
     ELSE \E c \in 1..MaxCalls :
            LET q == getElement(Now, extension)
                p == Awaited(q, extension)
            IN /\ calls[c].state = "free"
               /\ \A earlier_c \in 1..(c - 1) : calls[earlier_c].state # "free"
               /\ calls' = [calls EXCEPT
                              ![c] = [fn |-> fn, extension |-> extension,
                                      state |-> "awaiting", awaits |-> p,
                                      element |-> <<"none", 0>>]]
               /\ Becomes([q EXCEPT
                             !.jobs = IF Settled(q, p)
                                      THEN Append(@, [kind |-> "resume",
                                                      id |-> c])
                                      ELSE @])
               /\ Returns
  /\ UNCHANGED <<task, builderOnly>>

\* the callback of _setupSvg, lines 51-54, for builder jobs[1].id, or the
\* rejection passing through the then
SvgCallback ==
  /\ jobs # << >>
  /\ jobs[1].kind = "svg"
  /\ LET b == jobs[1].id
         drawn == heap.builders[b].drawQR = "resolved"
         called == drawn /\ inst.svg # 0 /\ inst.extension
     IN /\ heap' = [heap EXCEPT
                      !.builders[b].promise =
                         IF drawn THEN "fulfilled" ELSE "rejected",
                      !.builders[b].extended = IF called THEN @ + 1 ELSE @]
        /\ jobs' = Tail(jobs) \o Chained(b)
                     \o Resumed([kind |-> "svg", id |-> b])
  /\ Runs
  /\ Returns
  /\ UNCHANGED <<inst, calls, builderOnly>>

\* the callback of _setupCanvas, lines 73-101, up to the load of the image
CanvasCallback ==
  /\ jobs # << >>
  /\ jobs[1].kind = "canvas"
  /\ LET k == jobs[1].id
         b == heap.promises[k].on
     IN IF heap.builders[b].promise = "rejected"
        THEN /\ heap' = [heap EXCEPT !.promises[k].state = "rejected"]
             /\ jobs' = Tail(jobs) \o Resumed([kind |-> "canvas", id |-> k])
        ELSE IF inst.svg = 0
        THEN /\ heap' = [heap EXCEPT !.promises[k].state = "fulfilled"]
             /\ jobs' = Tail(jobs) \o Resumed([kind |-> "canvas", id |-> k])
        ELSE /\ heap' = [heap EXCEPT
                           !.promises[k].state = "loading",
                           !.promises[k].serialized = Snapshot(Now)]
             /\ jobs' = Tail(jobs)
  /\ Runs
  /\ Returns
  /\ UNCHANGED <<inst, calls, builderOnly>>

\* the canvas this._domCanvas || this._nodeCanvas
Canvas(q) ==
  IF q.inst.domCanvas # 0 THEN q.inst.domCanvas ELSE q.inst.nodeCanvasObject

\* the image of the serialized SVG has loaded, lines 83-89 and 94-98: it is
\* drawn onto the canvas the instance holds now
CanvasImageLoaded(k) ==
  /\ jobs = << >>
  /\ heap.promises[k].state = "loading"
  /\ LET target == IF inst.nodeCanvas
                   THEN inst.nodeCanvasObject
                   ELSE inst.domCanvas
     IN heap' = [heap EXCEPT
                   !.promises[k].state = "fulfilled",
                   !.canvases = IF target = 0
                                THEN @
                                ELSE [@ EXCEPT ![target].content =
                                        heap.promises[k].serialized]]
  /\ jobs' = Resumed([kind |-> "canvas", id |-> k])
  /\ Runs
  /\ Returns
  /\ UNCHANGED <<inst, calls, builderOnly>>

\* what a caller finds in the element it is given
Seen(element) ==
  IF element[2] = 0
  THEN NoSnapshot
  ELSE IF element[1] = "svg"
  THEN Snapshot([Now EXCEPT !.inst.svg = element[2]])
  ELSE heap.canvases[element[2]].content

\* what an asynchronous call gives its caller, with the symbol the instance
\* holds at that time
Given(c, element) ==
  [returned |-> TRUE,
   value |-> [fn |-> calls[c].fn, extension |-> calls[c].extension,
              element |-> element, seen |-> Seen(element),
              current |-> inst.qr]]

\* _getElement after its await, lines 113-114 and 119-120
Resume ==
  /\ jobs # << >>
  /\ jobs[1].kind = "resume"
  /\ LET c == jobs[1].id
         p == calls[c].awaits
         rejected == IF p.kind = "svg"
                     THEN heap.builders[p.id].promise = "rejected"
                     ELSE heap.promises[p.id].state = "rejected"
         element == IF calls[c].extension = "svg"
                    THEN <<"svg", inst.svg>>
                    ELSE <<"canvas", Canvas(Now)>>
     IN IF rejected
        THEN /\ calls' = [calls EXCEPT ![c] = NoAsync]
             /\ jobs' = Tail(jobs)
             /\ Throws("loadImage")
        ELSE IF calls[c].fn = "_getElement"
        THEN /\ calls' = [calls EXCEPT ![c] = NoAsync]
             /\ jobs' = Tail(jobs)
             /\ thrown' = "none"
             /\ result' = Given(c, element)
        ELSE /\ calls' = [calls EXCEPT ![c].state = "got",
                                       ![c].element = element]
             /\ jobs' = Append(Tail(jobs), [kind |-> "serialize", id |-> c])
             /\ Returns
  /\ Runs
  /\ UNCHANGED <<inst, heap, builderOnly>>

\* getRawData and download after their await, lines 182-216 and 225-243
Serialize ==
  /\ jobs # << >>
  /\ jobs[1].kind = "serialize"
  /\ LET c == jobs[1].id
     IN /\ calls' = [calls EXCEPT ![c] = NoAsync]
        /\ result' = Given(c, calls[c].element)
  /\ thrown' = "none"
  /\ jobs' = Tail(jobs)
  /\ Runs
  /\ UNCHANGED <<inst, heap, builderOnly>>

\* the image of options.image has loaded, QRSVGBuilder.ts lines 610-624:
\* the drawQR of builder b goes on to its end
ImageLoaded(b) ==
  /\ jobs = << >>
  /\ heap.builders[b].drawQR = "pending"
  /\ heap' = [heap EXCEPT !.builders[b].drawQR = "resolved"]
  /\ jobs' = <<[kind |-> "svg", id |-> b]>>
  /\ Runs
  /\ Returns
  /\ UNCHANGED <<inst, calls, builderOnly>>

\* nodeCanvas.loadImage has rejected, QRSVGBuilder.ts lines 598-609
ImageFailed(b) ==
  /\ jobs = << >>
  /\ inst.nodeCanvas
  /\ heap.builders[b].drawQR = "pending"
  /\ heap' = [heap EXCEPT !.builders[b].drawQR = "rejected"]
  /\ jobs' = <<[kind |-> "svg", id |-> b]>>
  /\ Runs
  /\ Returns
  /\ UNCHANGED <<inst, calls, builderOnly>>

\* an instance that the constructor has not yet updated, lines 28-35
Constructed(type, nodeCanvas, image, data) ==
  [inst |-> [made |-> TRUE, data |-> data, type |-> type,
             nodeCanvas |-> nodeCanvas, image |-> image, qr |-> 0, svg |-> 0,
             svgDrawingPromise |-> 0, domCanvas |-> 0, nodeCanvasObject |-> 0,
             canvasDrawingPromise |-> 0, container |-> "undefined",
             extension |-> FALSE],
   heap |-> [symbols |-> << >>, builders |-> << >>, promises |-> << >>,
             canvases |-> << >>, children |-> << >>],
   jobs |-> << >>]

\* the data given in options, "keep" for options without data
Data == {"keep", "", "a"}

\* the instance after its construction, lines 28-36; the container it will
\* be appended to is empty
InitStyling ==
  /\ \E type \in {"svg", "canvas"}, nodeCanvas \in BOOLEAN, image \in BOOLEAN,
        data \in {"", "a"} :
       LET q == update(Constructed(type, nodeCanvas, image, data), "keep")
       IN /\ inst = q.inst
          /\ heap = q.heap
          /\ jobs = q.jobs
  /\ calls = [c \in 1..MaxCalls |-> NoAsync]
  /\ task = "user"
  /\ pc = "styling"
  /\ args = NoCall
  /\ result = NoResult
  /\ dotSize = 4
  /\ NoDrawing
  /\ qr = NoEncoder
  /\ options = NoOptions
  /\ drawImageSize = NoImageSize
  /\ mask = << >>
  /\ isDarkCalls = {}
  /\ thrown = "none"
  /\ frame = NoFrame
  /\ earlier = << >>

NextStyling ==
  \/ \E data \in Data : Update(data)
  \/ \E container \in {"undefined", "node", "string"} : AppendTo(container)
  \/ \E extension \in {"undefined", "function"} : ApplyExtension(extension)
  \/ DeleteExtension
  \/ \E fn \in {"_getElement", "getRawData", "download"},
        extension \in {"svg", "png"} : CallAsync(fn, extension)
  \/ SvgCallback
  \/ CanvasCallback
  \/ \E k \in 1..Len(heap.promises) : CanvasImageLoaded(k)
  \/ Resume
  \/ Serialize
  \/ \E b \in 1..Len(heap.builders) : ImageLoaded(b)
  \/ \E b \in 1..Len(heap.builders) : ImageFailed(b)

SpecStyling == InitStyling /\ [][NextStyling]_vars

(***************************************************************************)
(* Reference notions the properties are stated with: the cells of a mask,  *)
(* adjacency, and the region of a cell (all cells of the same polarity     *)
(* joined to it by a chain of adjacent cells of that polarity).            *)
(***************************************************************************)
Cells(m) ==
  IF Len(m) = 0
  THEN {}
  ELSE (0..(Len(m) - 1)) \X (0..(Len(m[1]) - 1))

Abs(x) == IF x < 0 THEN -x ELSE x

\* the cells adjacent to a: edge-adjacent for 4, edge- or corner-adjacent
\* for 8
Neighbours(a, connectedness) ==
  {b \in ((a[1] - 1)..(a[1] + 1)) \X ((a[2] - 1)..(a[2] + 1)) :
     /\ b # a
     /\ connectedness = 4 => Abs(a[1] - b[1]) + Abs(a[2] - b[2]) = 1}

\* S and every cell of pool joined to S by a chain of adjacent pool cells
RECURSIVE Grow(_, _, _, _)
Grow(S, frontier, pool, connectedness) ==
  LET new == ((UNION {Neighbours(a, connectedness) : a \in frontier})
                \cap pool) \ S
  IN IF new = {} THEN S ELSE Grow(S \cup new, new, pool, connectedness)

\* a <= b in raster order
RasterBefore(a, b) == a[1] < b[1] \/ (a[1] = b[1] /\ a[2] <= b[2])

RasterFirst(S) == CHOOSE a \in S : \A b \in S : RasterBefore(a, b)

\* the cells of m that hold polarity
CellsOf(m, polarity) == {a \in Cells(m) : Get(m, a[1], a[2]) = polarity}

Region(m, polarity, connectedness, a) ==
  Grow({a}, {a}, CellsOf(m, polarity), connectedness)

OnBorder(m, a) ==
  a[1] = 0 \/ a[2] = 0 \/ a[1] = Len(m) - 1 \/ a[2] = Len(m[1]) - 1

\* the background cells joined (8-connected) to the border: the outside
Outside(m) ==
  LET border == {a \in CellsOf(m, FALSE) : OnBorder(m, a)}
  IN Grow(border, border, CellsOf(m, FALSE), 8)

\* the cells that hold id in a label map
Holding(labels, id) == {a \in Cells(labels) : Get(labels, a[1], a[2]) = id}

\* the ids held by the cells S of a label map
IdsOf(labels, S) == {Get(labels, a[1], a[2]) : a \in S}

\* the cells holding one id are exactly one region: two cells of S hold the
\* same id if and only if they are joined through cells of their polarity
SameIdIffJoined(m, labels, S, polarity, connectedness) ==
  \A id \in IdsOf(labels, S) :
    Holding(labels, id) =
      Region(m, polarity, connectedness, RasterFirst(Holding(labels, id) \cap S))

\* the state right after the two labelling passes
Labelled == pc = "renderPaths" /\ pathIndex = 1 /\ paths = << >>

(***************************************************************************)
(* C1  Foreground labelling.  After buildConnectedComponents(mask) every   *)
(* true cell holds one id (a positive integer), every false cell holds     *)
(* null, and two true cells hold the same id exactly when a chain of       *)
(* edge-adjacent true cells joins them.                                    *)
(***************************************************************************)
C1_ForegroundLabelling ==
  Labelled =>
    /\ \A a \in CellsOf(dotsMask, FALSE) : Get(components, a[1], a[2]) = Null
    /\ \A a \in CellsOf(dotsMask, TRUE) :
         Get(components, a[1], a[2]) \in Nat \ {0}
    /\ SameIdIffJoined(dotsMask, components, CellsOf(dotsMask, TRUE), TRUE, 4)

\* a mask whose foreground needs an alias: a U shape, labelled as one region
C1_Witness ==
  /\ Labelled
  /\ Len(dotsMask) = 3
  /\ CellsOf(dotsMask, FALSE) = {<<0, 1>>, <<1, 1>>}
  /\ Len(ids) = 1
  /\ Get(components, 0, 2) = Get(components, 0, 0)

(***************************************************************************)
(* C2  Background labelling of a square mask.  After                       *)
(* buildConnectedComponents(mask, true, 8) every false cell on the border  *)
(* or 8-connected to it through false cells holds id 1; every other false  *)
(* cell holds an id >= 2, the same as another such cell exactly when false *)
(* cells 8-connect them; true cells hold null.                             *)
(***************************************************************************)
C2_BackgroundLabelling ==
  (Labelled /\ \A r \in 1..Len(dotsMask) : Len(dotsMask[r]) = Len(dotsMask)) =>
    /\ \A a \in CellsOf(dotsMask, TRUE) :
         Get(backgroundComponents, a[1], a[2]) = Null
    /\ \A a \in Outside(dotsMask) : Get(backgroundComponents, a[1], a[2]) = 1
    /\ \A a \in CellsOf(dotsMask, FALSE) \ Outside(dotsMask) :
         Get(backgroundComponents, a[1], a[2]) \in Nat \ {0, 1}
    /\ SameIdIffJoined(dotsMask, backgroundComponents,
                       CellsOf(dotsMask, FALSE) \ Outside(dotsMask), FALSE, 8)

\* two enclosed cells joined only by a diagonal share an id >= 2, while the
\* outside holds 1
C2_Witness ==
  /\ Labelled
  /\ Len(dotsMask) = 5
  /\ CellsOf(dotsMask, FALSE) = {<<1, 2>>, <<2, 1>>, <<3, 3>>}
  /\ Get(backgroundComponents, 1, 2) = Get(backgroundComponents, 2, 1)
  /\ Get(backgroundComponents, 1, 2) >= 2
  /\ Get(backgroundComponents, 3, 3) # Get(backgroundComponents, 1, 2)

(***************************************************************************)
(* C3  Alias resolution and registry, for both passes.  The id of a        *)
(* labelled cell is the least provisional id the raster scan gave to a     *)
(* cell of its component (in the 8-connected pass the outside, joined by   *)
(* the synthetic id 1, is one component); the keys of the registry are the *)
(* ids present in the label map; each key maps to the raster-first cell    *)
(* that holds it.                                                          *)
(***************************************************************************)
\* the component of cell a in the pass (invert, connectedness)
ComponentOf(a, invert, connectedness) ==
  IF connectedness = 8 /\ a \in Outside(dotsMask)
  THEN Outside(dotsMask)
  ELSE Region(dotsMask, ~invert, connectedness, a)

ResolvedAsMinimum(labels, registry, invert, connectedness) ==
  LET provisional == ScanPass(dotsMask, invert, connectedness).components
      labelled == CellsOf(dotsMask, ~invert)
      present == {Get(labels, a[1], a[2]) : a \in labelled}
  IN /\ \A id \in present :
          LET first == RasterFirst(Holding(labels, id))
              region == ComponentOf(first, invert, connectedness)
          IN /\ Holding(labels, id) \subseteq region
             /\ id = SetMin(IdsOf(provisional, region))
     /\ {registry[i].id : i \in 1..Len(registry)} = present
     /\ \A i, j \in 1..Len(registry) :
          registry[i].id = registry[j].id => i = j
     /\ \A i \in 1..Len(registry) :
          <<registry[i].row, registry[i].col>> =
            RasterFirst(Holding(labels, registry[i].id))

C3_AliasResolution ==
  Labelled =>
    /\ ResolvedAsMinimum(components, ids, FALSE, 4)
    /\ ResolvedAsMinimum(backgroundComponents, backgroundIds, TRUE, 8)

\* a region whose cells got two provisional ids (2 and 3) and hold the
\* smaller one after resolution, registered at its raster-first cell
C3_Witness ==
  /\ Labelled
  /\ Len(dotsMask) = 3
  /\ CellsOf(dotsMask, FALSE) = {<<0, 1>>, <<1, 1>>}
  /\ Get(ScanPass(dotsMask, FALSE, 4).components, 0, 2) = 3
  /\ Get(components, 0, 2) = 2
  /\ ids = <<[id |-> 2, row |-> 0, col |-> 0]>>

(***************************************************************************)
(* Reading a d string: the pen position after its first k commands, the    *)
(* number of sub-loops, and the cells its even-odd fill covers (for paths  *)
(* of straight segments).  Positions are in half units.                    *)
(***************************************************************************)
RECURSIVE PenX(_, _)
PenX(d, k) ==
  IF k = 0 THEN 0
  ELSE IF d[k].op = "M" THEN d[k].dx
  ELSE d[k].dx + PenX(d, k - 1)

RECURSIVE PenY(_, _)
PenY(d, k) ==
  IF k = 0 THEN 0
  ELSE IF d[k].op = "M" THEN d[k].dy
  ELSE d[k].dy + PenY(d, k - 1)

Drawn(c) == c.op \in {"h", "v", "a"}

\* the sum of the displacements of the drawn segments among the first k
\* commands
RECURSIVE DrawnX(_, _)
DrawnX(d, k) ==
  IF k = 0 THEN 0
  ELSE (IF Drawn(d[k]) THEN d[k].dx ELSE 0) + DrawnX(d, k - 1)

RECURSIVE DrawnY(_, _)
DrawnY(d, k) ==
  IF k = 0 THEN 0
  ELSE (IF Drawn(d[k]) THEN d[k].dy ELSE 0) + DrawnY(d, k - 1)

\* every sub-loop starts with one absolute move
SubLoops(d) == Cardinality({k \in 1..Len(d) : d[k].op = "M"})

\* the vertical segments of d, as [x, y1, y2]
VerticalSegments(d) ==
  [k \in {j \in 1..Len(d) : d[j].op = "v"} |->
     [x |-> PenX(d, k), y1 |-> PenY(d, k - 1), y2 |-> PenY(d, k)]]

\* the centre of cell a, in half units
CentreX(a) == 2 * (offset.dx + a[2] * dotSize) + dotSize
CentreY(a) == 2 * (offset.dy + a[1] * dotSize) + dotSize

\* the mask's cells and one ring of cells around them
CellsAround(m) == ((-1)..Len(m)) \X ((-1)..Len(m))

\* the cells whose centre is inside d under the even-odd rule: a ray from
\* the centre to the left crosses an odd number of segments
EvenOddFill(d) ==
  LET segs == VerticalSegments(d)
  IN {a \in CellsAround(dotsMask) :
        Cardinality({k \in DOMAIN segs :
                       /\ segs[k].x < CentreX(a)
                       /\ \/ segs[k].y1 < CentreY(a) /\ CentreY(a) < segs[k].y2
                          \/ segs[k].y2 < CentreY(a) /\ CentreY(a) < segs[k].y1})
          % 2 = 1}

Done == pc = "done"

(***************************************************************************)
(* C4  Contour walk termination.  In every renderComponentToPath call of   *)
(* drawComponents (outer contours and holes) an iteration always starts    *)
(* from a (cell, arrival orientation) pair not seen before in the call,    *)
(* the number of iterations never exceeds 4 times the number of cells of   *)
(* the component, and the call returns with the walk back at its start     *)
(* cell in its initial orientation.                                        *)
(***************************************************************************)
C4_WalkTerminates ==
  walk.active =>
    /\ ~walk.returned => <<walk.current, walk.origin>> \notin walk.visited
    /\ walk.iterations
         <= 4 * Cardinality(Holding(components, walk.componentId))
    /\ walk.returned =>
         /\ walk.current = walk.start
         /\ walk.origin = walk.originalOrigin

\* a walk that came back to its start after passing it before in another
\* orientation
C4_Witness ==
  /\ walk.active
  /\ walk.returned
  /\ walk.iterations >= 8
  /\ \E o \in Directions \ {walk.originalOrigin} :
       <<walk.start, o>> \in walk.visited

(***************************************************************************)
(* C5  Closure.  For every drawer and every sub-loop returned by           *)
(* renderComponentToPath (outer contour, hole contour, single dot) the     *)
(* displacements of its h, v and a commands sum to (0, 0).                 *)
(***************************************************************************)
C5_Closure ==
  (walk.active /\ walk.returned) =>
    /\ DrawnX(walk.path, Len(walk.path)) = 0
    /\ DrawnY(walk.path, Len(walk.path)) = 0

\* a returned contour that holds arcs and more than one turn
C5_Witness ==
  /\ walk.active
  /\ walk.returned
  /\ style = "rounded"
  /\ walk.iterations >= 6
  /\ Cardinality({k \in 1..Len(walk.path) : walk.path[k].op = "a"}) >= 4

(***************************************************************************)
(* Reference notions for holes.                                            *)
(***************************************************************************)
\* the ids of the enclosed background components
EnclosedIds == {backgroundIds[i].id : i \in 1..Len(backgroundIds)} \ {1}

\* the ids of the foreground components with a cell edge-adjacent to a cell
\* of S
ForegroundAround(S) ==
  IdsOf(components,
        (UNION {Neighbours(a, 4) : a \in S}) \cap CellsOf(dotsMask, TRUE))

\* the cells that a chain of cells outside X joins to a border cell
OpenTo(X) ==
  LET free == Cells(dotsMask) \ X
      border == {a \in free : OnBorder(dotsMask, a)}
  IN Grow(border, border, free, 8)

\* the enclosed background components that the foreground cells X cut off
\* from the border and touch
HolesOf(X) ==
  {id \in EnclosedIds :
     LET R == Holding(backgroundComponents, id)
     IN /\ R \cap OpenTo(X) = {}
        /\ (UNION {Neighbours(a, 4) : a \in R}) \cap X # {}}

\* the keys of backgroundPathsForComponent that list the background id
RegisteredTo(id) ==
  {k \in DOMAIN backgroundPathsForComponent :
     \E j \in 1..Len(backgroundPathsForComponent[k]) :
       backgroundPathsForComponent[k][j] = id}

\* the state right after backgroundPathsForComponent is built
Registered == pc = "elements" /\ pathIndex = 1

(***************************************************************************)
(* C6  Coverage without holes.  For a mask with no enclosed background     *)
(* component (no background id > 1) and the square style, the path of      *)
(* each foreground component fills exactly the cells of that component, so *)
(* the fills together cover every true cell and no false cell.             *)
(***************************************************************************)
C6_Coverage ==
  (Done /\ style = "square" /\ EnclosedIds = {}) =>
    /\ Len(elements) = Len(ids)
    /\ \A i \in 1..Len(elements) :
         EvenOddFill(elements[i].d) = Holding(components, ids[i].id)
    /\ UNION {EvenOddFill(elements[i].d) : i \in 1..Len(elements)}
         = CellsOf(dotsMask, TRUE)

\* three components without a hole, one of them with a concave corner
C6_Witness ==
  /\ Done
  /\ style = "square"
  /\ EnclosedIds = {}
  /\ Len(dotsMask) = 3
  /\ CellsOf(dotsMask, FALSE) = {<<0, 1>>, <<1, 1>>, <<1, 2>>, <<2, 2>>}
  /\ Len(elements) = 2

(***************************************************************************)
(* C7  Hole correctness.  drawComponents emits one path element per        *)
(* foreground component, with fill-rule evenodd, whose d holds the outer   *)
(* sub-loop and one sub-loop per background component the foreground       *)
(* component encloses; with the square style its even-odd fill covers      *)
(* exactly the cells of the component and so no enclosed background cell.  *)
(***************************************************************************)
C7_HoleCorrectness ==
  Done =>
    /\ Len(elements) = Len(ids)
    /\ \A i \in 1..Len(elements) :
         /\ elements[i].tag = "path"
         /\ elements[i].fillRule = "evenodd"
         /\ SubLoops(elements[i].d)
              = 1 + Cardinality(HolesOf(Holding(components, ids[i].id)))
         /\ style = "square" =>
              EvenOddFill(elements[i].d) = Holding(components, ids[i].id)

\* the ring with one empty centre cell: one element of two sub-loops
C7_Witness ==
  /\ Done
  /\ style = "square"
  /\ Len(dotsMask) = 3
  /\ CellsOf(dotsMask, FALSE) = {<<1, 1>>}
  /\ Len(elements) = 1
  /\ SubLoops(elements[1].d) = 2
  /\ <<1, 1>> \notin EvenOddFill(elements[1].d)

(***************************************************************************)
(* C8  Single-cell case.  A true cell with no true cell to its left,       *)
(* right, top or bottom is a component of its own, and its path is the     *)
(* initial move-to followed by the single-dot glyph of the drawer and      *)
(* nothing else, drawn in one iteration.                                   *)
(***************************************************************************)
Isolated(a) ==
  /\ Get(dotsMask, a[1], a[2]) = TRUE
  /\ Neighbours(a, 4) \cap CellsOf(dotsMask, TRUE) = {}

SingleDotPath(a) ==
  MoveTo(2 * (a[2] * dotSize + offset.dx), 2 * (a[1] * dotSize + offset.dy))
    \o Glyph(style, "singleDot", dotSize)

C8_SingleCell ==
  /\ (walk.active /\ walk.returned
        /\ Isolated(<<walk.start.row, walk.start.col>>)) =>
       /\ walk.iterations = 1
       /\ walk.path = SingleDotPath(<<walk.start.row, walk.start.col>>)
  /\ Done =>
       \A a \in Cells(dotsMask) :
         Isolated(a) =>
           /\ Holding(components, Get(components, a[1], a[2])) = {a}
           /\ \E i \in 1..Len(elements) :
                /\ ids[i].id = Get(components, a[1], a[2])
                /\ elements[i].d = SingleDotPath(a)

\* two isolated cells that touch at a corner: two components, two dots
C8_Witness ==
  /\ Done
  /\ Len(dotsMask) = 2
  /\ CellsOf(dotsMask, TRUE) = {<<0, 0>>, <<1, 1>>}
  /\ Len(elements) = 2
  /\ elements[2].d = SingleDotPath(<<1, 1>>)

(***************************************************************************)
(* C9  A background component whose cells are edge-adjacent to cells of    *)
(* more than one foreground component.                                     *)
(***************************************************************************)
\* C9 as stated: such a component is registered to no foreground component
\* and no path gets a sub-loop for it
C9_AsStated ==
  Done =>
    \A id \in EnclosedIds :
      Cardinality(ForegroundAround(Holding(backgroundComponents, id))) > 1 =>
        /\ RegisteredTo(id) = {}
        /\ \A i \in 1..Len(elements) : SubLoops(elements[i].d) = 1

(***************************************************************************)
(* C9 as amended: an enclosed background component (id > 1) whose cells    *)
(* are edge-adjacent to cells of more than one foreground component is     *)
(* still a hole: it is registered once, to the one foreground component    *)
(* that holds the cell left of its start, and the path of that component   *)
(* gets one sub-loop per hole registered to it, the paths of the           *)
(* components that no hole is registered to get none.                      *)
(***************************************************************************)
C9_SharedHoleRegisteredOnce ==
  Done =>
    \A id \in EnclosedIds :
      Cardinality(ForegroundAround(Holding(backgroundComponents, id))) > 1 =>
        LET start == BackgroundStart(id)
            owner == Get(components, start.row, start.col - 1)
        IN /\ RegisteredTo(id) = {owner}
           /\ Cardinality({j \in 1..Len(backgroundPathsForComponent[owner]) :
                             backgroundPathsForComponent[owner][j] = id}) = 1
           /\ \A i \in 1..Len(elements) :
                SubLoops(elements[i].d) =
                  IF ids[i].id \in DOMAIN backgroundPathsForComponent
                  THEN 1 + Len(backgroundPathsForComponent[ids[i].id])
                  ELSE 1

\* the gap between a ring and the island inside it: a hole of the ring
C9_Witness ==
  /\ Done
  /\ Len(dotsMask) = 5
  /\ CellsOf(dotsMask, TRUE) \cap ((1..3) \X (1..3)) = {<<2, 2>>}
  /\ Len(elements) = 2
  /\ SubLoops(elements[1].d) = 2
  /\ SubLoops(elements[2].d) = 1

(***************************************************************************)
(* C10  The outside is never a hole.  No background component that holds   *)
(* a border cell or is 8-connected to one is registered as a hole, and no  *)
(* hole contour is walked for it.                                          *)
(***************************************************************************)
C10_OutsideNeverHole ==
  /\ Registered =>
       \A k \in DOMAIN backgroundPathsForComponent :
         \A j \in 1..Len(backgroundPathsForComponent[k]) :
           Holding(backgroundComponents, backgroundPathsForComponent[k][j])
             \cap Outside(dotsMask) = {}
  /\ (walk.active /\ walk.moveRight /\ walk.iterations = 0) =>
       <<walk.start.row + 1, walk.start.col + 1>>
         \in CellsOf(dotsMask, FALSE) \ Outside(dotsMask)
  /\ Done =>
       \A i \in 1..Len(elements) :
         SubLoops(elements[i].d) = 1 + Len(BackgroundPaths(ids[i].id))

\* the outside starts right of a foreground cell and is skipped, while an
\* enclosed component is registered
C10_Witness ==
  /\ Registered
  /\ Len(backgroundIds) >= 2
  /\ backgroundIds[1].id = 1
  /\ Truthy(Get(components, backgroundIds[1].row, backgroundIds[1].col - 1))
  /\ DOMAIN backgroundPathsForComponent # {}

(***************************************************************************)
(* C13  buildDotsMask, square shape: the mask returned for module count N  *)
(* is N x N, and a cell is true exactly when its module is dark and the    *)
(* cell lies in no exclusion zone: the ring and the centre of the finder   *)
(* template anchored at the top-left, top-right and bottom-left corners,   *)
(* and, only with hideBackgroundDots, the centred rectangle of             *)
(* hideYDots x hideXDots.                                                  *)
(***************************************************************************)
\* the true cells of the 7 x 7 ring and of the 3 x 3 centre
TemplateCells ==
  {t \in (0..6) \X (0..6) :
     \/ t[1] \in {0, 6}
     \/ t[2] \in {0, 6}
     \/ (t[1] \in 2..4 /\ t[2] \in 2..4)}

FinderAnchors(n) == {<<0, 0>>, <<0, n - 7>>, <<n - 7, 0>>}

ZoneAt(anchor) == {<<anchor[1] + t[1], anchor[2] + t[2]>> : t \in TemplateCells}

FinderZone(n) == UNION {ZoneAt(anchor) : anchor \in FinderAnchors(n)}

LogoZone(n) ==
  IF options.hideBackgroundDots
  THEN {cell \in Modules(n) :
          /\ n - drawImageSize.hideYDots <= 2 * cell[1]
          /\ 2 * cell[1] < n + drawImageSize.hideYDots
          /\ n - drawImageSize.hideXDots <= 2 * cell[2]
          /\ 2 * cell[2] < n + drawImageSize.hideXDots}
  ELSE {}

SquareMaskReturned ==
  /\ args.fn \in {"buildDotsMask", "drawQR"}
  /\ options.shape = "square"
  /\ result.returned

C13_DotMask ==
  SquareMaskReturned =>
    /\ Len(result.value) = qr.count
    /\ \A row \in 1..qr.count : Len(result.value[row]) = qr.count
    /\ \A cell \in Modules(qr.count) :
         result.value[cell[1] + 1][cell[2] + 1]
           <=> /\ cell \in qr.dark
               /\ cell \notin FinderZone(qr.count)
               /\ cell \notin LogoZone(qr.count)

\* a mask with a true cell, a dark module hidden by the logo rectangle only
\* and a dark module hidden by the top-right finder pattern only
C13_Witness ==
  /\ SquareMaskReturned
  /\ \E cell \in Modules(qr.count) : result.value[cell[1] + 1][cell[2] + 1]
  /\ \E cell \in qr.dark :
       cell \in LogoZone(qr.count) /\ cell \notin FinderZone(qr.count)
  /\ \E cell \in qr.dark :
       /\ cell \in ZoneAt(<<0, qr.count - 7>>)
       /\ cell \notin ZoneAt(<<0, 0>>) \cup ZoneAt(<<qr.count - 7, 0>>)
       /\ cell \notin LogoZone(qr.count)

(***************************************************************************)
(* C14  expandDotsMaskWithCircle, as stated: for every N x N mask and      *)
(* every padding p >= 0 the call returns a mask of side N + 2p whose       *)
(* block at offset (p, p) equals the input, and the input is left as it    *)
(* was.                                                                    *)
(***************************************************************************)
\* the mask handed to expandDotsMaskWithCircle
ExpanderInput ==
  IF args.fn = "expandDotsMaskWithCircle"
  THEN args.dotsMask
  ELSE MaskRows(drawImageSize)

ExpanderLeft ==
  /\ options.shape = "circle"
  /\ pc \notin {"buildDotsMask", "expandDotsMaskWithCircle"}
  /\ args.fn \in {"buildDotsMask", "expandDotsMaskWithCircle", "drawQR"}

InteriorKept ==
  /\ Len(result.value) = qr.count + 2 * additionalDots
  /\ \A row \in 1..Len(result.value) :
       Len(result.value[row]) = qr.count + 2 * additionalDots
  /\ \A cell \in Modules(qr.count) :
       result.value[cell[1] + additionalDots + 1][cell[2] + additionalDots + 1]
         = ExpanderInput[cell[1] + 1][cell[2] + 1]
  /\ mask = ExpanderInput

C14_AsStated ==
  (ExpanderLeft /\ additionalDots >= 0) => result.returned /\ InteriorKept

(***************************************************************************)
(* C17  as stated: every call of isDark made while the mask is built,      *)
(* the circular expansion included, has 0 <= row, col < moduleCount().     *)
(***************************************************************************)
C17_AsStated ==
  \A call \in isDarkCalls : InRange(call[1], call[2])

(***************************************************************************)
(* C11.  Unknown style identifiers are reported before any drawing work    *)
(* begins: when dotsOptions.type is none of square, dots, rounded,         *)
(* extra-rounded, classy, classy-rounded, drawQR fails, and no element has *)
(* been appended to the SVG root at the moment the error is raised.        *)
(* As stated, the sentence does not hold of drawQR: drawerFactory answers  *)
(* undefined without throwing, drawBackground has run by then, and the     *)
(* TypeError comes from the first renderComponentToPath call, if any.      *)
(***************************************************************************)
UnknownStyle == options.dotsType \notin Styles \cup {"dots"}

C11_AsStated ==
  (args.fn = "drawQR" /\ UnknownStyle)
    => /\ pc # "resolved"
       /\ thrown # "none" => elements = << >>

(***************************************************************************)
(* C15.  Dots mode: when dotsOptions.type is "dots", drawMainComponents    *)
(* labels nothing and traces nothing, and appends exactly one circle per   *)
(* true cell (row, col) of the mask, placed at (offset.dx + col * dotSize, *)
(* offset.dy + row * dotSize), and none for a false cell.                  *)
(***************************************************************************)
\* drawMainComponents has just returned on the dots branch
DotsDrawn ==
  /\ args.fn = "drawQR"
  /\ options.dotsType = "dots"
  /\ pc = "cornerSquares"
  /\ frame = [caller |-> "drawQR", index |-> 1]

\* the elements drawBackground had appended before
BackgroundElements == IF options.background THEN 1 ELSE 0

\* indices of the circles in the root whose box has its corner at (x, y)
CirclesAt(x, y) ==
  {i \in (BackgroundElements + 1)..Len(elements) :
     /\ elements[i].tag = "circle"
     /\ elements[i].r = dotSize
     /\ elements[i].cx - elements[i].r = 2 * x
     /\ elements[i].cy - elements[i].r = 2 * y}

C15_DotsMode ==
  DotsDrawn =>
    LET dots == result.value
        at == Beginning(Len(dots))
        trueCells == {cell \in Cells(dots) : dots[cell[1] + 1][cell[2] + 1]}
    IN /\ components = << >> /\ ids = << >>
       /\ backgroundComponents = << >> /\ backgroundIds = << >>
       /\ paths = << >> /\ walk = NoWalk
       /\ Len(elements) = BackgroundElements + Cardinality(trueCells)
       /\ \A cell \in Cells(dots) :
            Cardinality(CirclesAt(at + cell[2] * dotSize, at + cell[1] * dotSize))
              = IF cell \in trueCells THEN 1 ELSE 0

C15_Witness ==
  /\ DotsDrawn
  /\ \E a \in Cells(result.value), b \in Cells(result.value) :
       /\ result.value[a[1] + 1][a[2] + 1]
       /\ ~result.value[b[1] + 1][b[2] + 1]
  /\ Len(elements) > BackgroundElements

(***************************************************************************)
(* C18.  Step rule: for every arrival orientation and every combination of *)
(* the four neighbour flags, determineNextDirection returns undefined      *)
(* exactly when all four flags are false; otherwise it returns the first   *)
(* flagged direction in the cyclic order left, bottom, right, top counted  *)
(* from just after the arrival orientation, so that the arrival            *)
(* orientation itself is returned only when it is the only neighbour.      *)
(***************************************************************************)
Cycle == <<"left", "bottom", "right", "top">>

Place(direction) == CHOOSE i \in 1..4 : Cycle[i] = direction

\* the k-th direction after origin in the cycle; the 4th is origin itself
After(origin, k) == Cycle[((Place(origin) - 1 + k) % 4) + 1]

Flag(call, direction) ==
  CASE direction = "left" -> call.hasLeft
    [] direction = "bottom" -> call.hasBottom
    [] direction = "right" -> call.hasRight
    [] direction = "top" -> call.hasTop

StepReturned ==
  /\ args.fn = "determineNextDirection"
  /\ result.returned

C18_StepRule ==
  StepReturned =>
    LET flagged == {k \in 1..4 : Flag(args, After(args.origin, k))}
    IN /\ result.value = NoDirection <=> flagged = {}
       /\ flagged # {} => result.value = After(args.origin, SetMin(flagged))
       /\ result.value = args.origin =>
            \A d \in Directions : Flag(args, d) <=> d = args.origin

C18_Witness ==
  /\ StepReturned
  /\ result.value = args.origin
  /\ args.origin = "right"

(***************************************************************************)
(* C20.  Style interchangeability: for each of the twelve transition       *)
(* methods and every module size, the glyph of the rounded, extra-rounded, *)
(* classy and classy-rounded drawer has the same net displacement as the   *)
(* glyph of the square drawer, and like it is made of drawn segments only. *)
(***************************************************************************)
TransitionMethods == Methods \ {"singleDot"}

\* the net displacement of a glyph, in half units
Displacement(d) == <<PenX(d, Len(d)), PenY(d, Len(d))>>

GlyphReturned ==
  /\ args.fn = "drawer"
  /\ args.method \in TransitionMethods
  /\ result.returned

C20_SameDisplacement ==
  GlyphReturned =>
    /\ Displacement(result.value)
         = Displacement(Glyph("square", args.method, args.size))
    /\ \A k \in 1..Len(result.value) : Drawn(result.value[k])

C20_Witness ==
  /\ GlyphReturned
  /\ args.style = "rounded"
  /\ args.method = "upU"
  /\ \E k \in 1..Len(result.value) : result.value[k].op = "a"
  /\ result.value # Glyph("square", args.method, args.size)

(***************************************************************************)
(* C19.  The contour walk stops at the first step after which the pair     *)
(* (current cell, arrival orientation) equals the initial pair, and never  *)
(* earlier: back at the start cell with another arrival orientation, the   *)
(* walk goes on.  (The walk of a single cell takes no step and is left by  *)
(* the break of line 422.)                                                 *)
(***************************************************************************)
\* the walk has taken at least one step
Stepped ==
  /\ pc = "walk"
  /\ walk.active
  /\ walk.iterations >= 1
  /\ walk.nextDirection # NoDirection

AtInitialPair ==
  /\ walk.current = walk.start
  /\ walk.origin = walk.originalOrigin

C19_StopsAtInitialPair ==
  Stepped => (walk.returned <=> AtInitialPair)

\* the component {(0,0),(0,1),(1,0)} is back at its start, from the bottom
C19_Witness ==
  /\ Stepped
  /\ dotsMask = <<<<TRUE, TRUE>>, <<TRUE, FALSE>>>>
  /\ ~walk.moveRight
  /\ walk.current = walk.start
  /\ walk.originalOrigin = "right"
  /\ walk.origin = "bottom"
  /\ ~walk.returned

(***************************************************************************)
(* C16.  Scenario C: an L-shaped foreground tromino traced with the classy *)
(* drawer.  As written, exactly one corner of its contour is an arc.  The  *)
(* classy drawer rounds rightUp and leftDown, the turns at the convex      *)
(* bottom-right and top-left corners, and an L tromino has two or three of *)
(* these: the arcs of its contour are exactly those corners, each of half  *)
(* the module size, and every other corner, the concave one included, is   *)
(* sharp.                                                                  *)
(***************************************************************************)
Foreground == CellsOf(dotsMask, TRUE)

\* three true cells that fill a 2 x 2 block but for one cell
LTromino ==
  /\ Cardinality(Foreground) = 3
  /\ \E row \in 0..(Len(dotsMask) - 2), col \in 0..(Len(dotsMask) - 2) :
       Foreground \subseteq (row..(row + 1)) \X (col..(col + 1))

ClassyTromino ==
  /\ Done
  /\ style = "classy"
  /\ LTromino
  /\ Len(elements) = 1

\* the arcs of a d string: where each starts, its displacement and radius
Arcs(d) ==
  {[x |-> PenX(d, k - 1), y |-> PenY(d, k - 1),
    dx |-> d[k].dx, dy |-> d[k].dy, r |-> d[k].r] :
     k \in {i \in 1..Len(d) : d[i].op = "a"}}

\* the corner of the view box at which cell a begins, in half units
CornerX(a) == 2 * (offset.dx + a[2] * dotSize)
CornerY(a) == 2 * (offset.dy + a[1] * dotSize)

ConvexTopLeft ==
  {a \in Foreground :
     /\ <<a[1], a[2] - 1>> \notin Foreground
     /\ <<a[1] - 1, a[2]>> \notin Foreground}

ConvexBottomRight ==
  {a \in Foreground :
     /\ <<a[1], a[2] + 1>> \notin Foreground
     /\ <<a[1] + 1, a[2]>> \notin Foreground}

\* the quarter circles of radius dotSize / 2 that round these corners
CornerArcs ==
  {[x |-> CornerX(a) + dotSize, y |-> CornerY(a),
    dx |-> -dotSize, dy |-> dotSize, r |-> dotSize] : a \in ConvexTopLeft}
    \cup
  {[x |-> CornerX(a) + dotSize, y |-> CornerY(a) + 2 * dotSize,
    dx |-> dotSize, dy |-> -dotSize, r |-> dotSize] : a \in ConvexBottomRight}

ArcCount(d) == Cardinality({i \in 1..Len(d) : d[i].op = "a"})

C16_AsStated ==
  ClassyTromino => ArcCount(elements[1].d) = 1

C16_ClassyTromino ==
  ClassyTromino =>
    /\ Arcs(elements[1].d) = CornerArcs
    /\ ArcCount(elements[1].d) = Cardinality(CornerArcs)
    /\ ArcCount(elements[1].d) \in {2, 3}

\* the tromino {(0,0),(0,1),(1,0)}: three arcs
C16_Witness ==
  /\ ClassyTromino
  /\ dotsMask = <<<<TRUE, TRUE>>, <<TRUE, FALSE>>>>
  /\ ArcCount(elements[1].d) = 3

(***************************************************************************)
(* C12.  Determinism: a second drawComponents call with the same mask,     *)
(* offset, dot size and style, on the same builder or on another one,      *)
(* produces the label maps, the registries (ids and start cells, in the    *)
(* same order) and the d strings of the first call.                        *)
(***************************************************************************)
SecondRunDone ==
  /\ Done
  /\ earlier # << >>

\* the elements the second call appended
Appended == SubSeq(elements, earlier.kept + 1, Len(elements))

PenCorner(row, col, origin) ==
  LET x == 2 * (offset.dx + col * dotSize)
      y == 2 * (offset.dy + row * dotSize)
  IN CASE origin = "top" -> <<x, y>>
       [] origin = "left" -> <<x, y + 2 * dotSize>>
       [] origin = "bottom" -> <<x + 2 * dotSize, y + 2 * dotSize>>
       [] origin = "right" -> <<x + 2 * dotSize, y>>

\* the cell reached from (row, col) by a move towards direction
Towards(row, col, direction) ==
  CASE direction = "left" -> <<row, col - 1>>
    [] direction = "bottom" -> <<row + 1, col>>
    [] direction = "right" -> <<row, col + 1>>
    [] direction = "top" -> <<row - 1, col>>

IterationBegins ==
  /\ pc = "walk"
  /\ walk.active
  /\ ~walk.returned

Pen == <<PenX(walk.path, Len(walk.path)), PenY(walk.path, Len(walk.path))>>

C21_PenPosition ==
  /\ IterationBegins =>
       Pen = PenCorner(walk.current.row, walk.current.col, walk.origin)
  /\ \A from \in Directions, to \in Directions :
       LET next == Towards(1, 1, to)
       IN getDrawDirections(from, to) = "null"
            <=> PenCorner(1, 1, from)
                  = PenCorner(next[1], next[2], Opposite(to))

\* in the middle of a hole walk, after a transition that draws nothing
C21_Witness ==
  /\ IterationBegins
  /\ walk.moveRight
  /\ walk.iterations >= 2
  /\ walk.origin = "left"
  /\ \E k \in 1..Len(walk.path) : walk.path[k].op = "a"

(***************************************************************************)
(* C22.  Hole start shift: for every background component with id > 1 and  *)
(* registered start cell (r, c), the cells (r-1, c-1), (r-1, c) and        *)
(* (r, c-1) all carry the id of the foreground component found at          *)
(* (r, c-1); so the hole walk started at (r-1, c-1) with moveRight = true  *)
(* begins with arrival orientation "bottom" and with the pen on the        *)
(* top-left corner of cell (r, c).                                         *)
(***************************************************************************)
\* the registered starts of the background components with id > 1
HoleStarts ==
  {<<backgroundIds[i].row, backgroundIds[i].col>> :
     i \in {j \in 1..Len(backgroundIds) : backgroundIds[j].id > 1}}

HoleWalkBegins ==
  /\ pc = "walk"
  /\ walk.active
  /\ walk.moveRight
  /\ walk.iterations = 0

C22_HoleStartShift ==
  /\ Labelled =>
       \A s \in HoleStarts :
         LET owner == Get(components, s[1], s[2] - 1)
         IN /\ Truthy(owner)
            /\ Get(components, s[1] - 1, s[2] - 1) = owner
            /\ Get(components, s[1] - 1, s[2]) = owner
  /\ HoleWalkBegins =>
       LET r == walk.start.row + 1
           c == walk.start.col + 1
       IN /\ <<r, c>> \in HoleStarts
          /\ walk.componentId = Get(components, r, c - 1)
          /\ walk.origin = "bottom"
          /\ Pen = PenCorner(r, c, "top")

\* a hole walk begins for a hole that is not the first of its component
C22_Witness ==
  /\ HoleWalkBegins
  /\ holeIndex >= 2
  /\ Cardinality(HoleStarts) >= 2

(***************************************************************************)
(* C23.  Hole ownership: every background component with id > 1 has a      *)
(* foreground cell immediately left of its registered start and is         *)
(* registered as a hole of exactly that one foreground component; the d    *)
(* string of each foreground component consists of exactly 1 + (number of  *)
(* holes registered to it) sub-loops, the hole sub-loops following the     *)
(* outer contour in the order of the background registry.                  *)
(***************************************************************************)
\* how often id is registered under key
TimesRegistered(key, id) ==
  Cardinality({k \in 1..Len(BackgroundPaths(key)) : BackgroundPaths(key)[k] = id})

\* the background ids > 1 whose start has owner to its left, in the order of
\* the background registry
RECURSIVE HolesInOrder(_, _)
HolesInOrder(owner, i) ==
  IF i = 0
  THEN << >>
  ELSE IF /\ backgroundIds[i].id > 1
          /\ Get(components, backgroundIds[i].row, backgroundIds[i].col - 1) = owner
       THEN Append(HolesInOrder(owner, i - 1), backgroundIds[i].id)
       ELSE HolesInOrder(owner, i - 1)

\* the absolute moves of a d string, in order
Moves(d) == SelectSeq(d, LAMBDA c : c.op = "M")

\* where the sub-loop of a hole begins: the corner of the cell up-left of
\* its start
HoleMove(id) ==
  LET start == BackgroundStart(id)
  IN Cmd("M", 0, 2 * ((start.col - 1) * dotSize + offset.dx),
                 2 * ((start.row - 1) * dotSize + offset.dy))

C23_HoleOwnership ==
  Done =>
    /\ \A i \in 1..Len(backgroundIds) :
         backgroundIds[i].id > 1 =>
           LET owner == Get(components, backgroundIds[i].row,
                            backgroundIds[i].col - 1)
           IN /\ Truthy(owner)
              /\ \A k \in 1..Len(ids) :
                   TimesRegistered(ids[k].id, backgroundIds[i].id)
                     = IF ids[k].id = owner THEN 1 ELSE 0
    /\ Len(elements) = Len(ids)
    /\ \A k \in 1..Len(ids) :
         LET holes == HolesInOrder(ids[k].id, Len(backgroundIds))
             moves == Moves(elements[k].d)
         IN /\ BackgroundPaths(ids[k].id) = holes
            /\ Len(moves) = 1 + Len(holes)
            /\ \A h \in 1..Len(holes) : moves[h + 1] = HoleMove(holes[h])

\* a component with two holes, registered in the order of their ids
C23_Witness ==
  /\ Done
  /\ \E a \in 1..Len(ids) :
       /\ Len(BackgroundPaths(ids[a].id)) >= 2
       /\ BackgroundPaths(ids[a].id)[1] < BackgroundPaths(ids[a].id)[2]

(***************************************************************************)
(* C24.  Rectangular masks: buildConnectedComponents(mask, true, 8) on an  *)
(* R x C mask with R different from C gives two false cells that are not   *)
(* connected to the border the same id if and only if false cells          *)
(* 8-connect them, also when the only link is a top-right diagonal         *)
(* neighbour in a column >= R - 1.  The sentence does not hold of the      *)
(* code: line 330 compares col with the number of rows.                    *)
(***************************************************************************)
RectLabelled ==
  /\ args.fn = "buildConnectedComponents"
  /\ result.returned
  /\ Len(args.dotsMask) # Len(args.dotsMask[1])

Enclosed(m) == CellsOf(m, FALSE) \ Outside(m)

C24_AsStated ==
  RectLabelled =>
    SameIdIffJoined(args.dotsMask, result.value.components,
                    Enclosed(args.dotsMask), FALSE, 8)
(***************************************************************************)
(* C25  No stale canvas: the canvas that _getElement, getRawData or        *)
(* download gets for an extension other than svg was drawn from an SVG     *)
(* built for the symbol of the most recent update.                         *)
(***************************************************************************)
\* an asynchronous call has just given its caller an element for extension
GaveElement(extension) ==
  /\ inst.made
  /\ result.returned
  /\ result.value.extension = extension
  /\ result.value.element[2] # 0

C25_AsStated ==
  GaveElement("png") => result.value.seen.qr = result.value.current
(***************************************************************************)
(* C26  Completed element under interleaving: the SVG element that         *)
(* _getElement('svg') returns, and that getRawData('svg') serializes,      *)
(* belongs to a builder whose drawQR has resolved, also when update() ran  *)
(* while the call was suspended.                                           *)
(***************************************************************************)
C26_AsStated ==
  GaveElement("svg") => result.value.seen.drawn
(***************************************************************************)
(* C27  Extension ordering: the extension is called at most once on the    *)
(* element of each builder, only after the drawQR of that builder has      *)
(* resolved, and in canvas mode before that builder's SVG is serialized    *)
(* for the canvas.                                                         *)
(***************************************************************************)
\* the builders whose SVG was serialized for a canvas before the callback
\* of _setupSvg had run for them
SerializedEarly ==
  {heap.promises[k].serialized.svg : k \in
     {k \in 1..Len(heap.promises) :
        /\ heap.promises[k].serialized.svg # 0
        /\ ~heap.promises[k].serialized.called}}

C27_AsStated ==
  inst.made =>
    /\ \A b \in 1..Len(heap.builders) :
         /\ heap.builders[b].extended <= 1
         /\ heap.builders[b].extended > 0
              => heap.builders[b].drawQR = "resolved"
    /\ \A b \in SerializedEarly : heap.builders[b].extended = 0
(***************************************************************************)
(* C28  Empty-QR error: while no symbol was made (neither the constructor  *)
(* nor an update() was given data that is not empty), the instance has no  *)
(* builder, SVG element, canvas or promise, and every call of _getElement, *)
(* getRawData or download rejects with 'QR code is empty' and changes      *)
(* nothing; update() with empty data leaves _qr, _svg and the two drawing  *)
(* promises as they were.                                                  *)
(***************************************************************************)
AsyncMethods == {"_getElement", "getRawData", "download"}

Empty ==
  /\ inst.qr = 0
  /\ inst.svg = 0
  /\ inst.domCanvas = 0
  /\ inst.nodeCanvasObject = 0
  /\ inst.svgDrawingPromise = 0
  /\ inst.canvasDrawingPromise = 0
  /\ heap.builders = << >>
  /\ heap.canvases = << >>
  /\ heap.promises = << >>
  /\ \A c \in 1..MaxCalls : calls[c].state = "free"
  /\ ~result.returned

RejectsEmpty ==
  \A fn \in AsyncMethods, extension \in {"svg", "png"} :
    CallAsync(fn, extension) /\ heap.symbols = << >>
      => /\ thrown' = "QR code is empty"
         /\ UNCHANGED <<inst, heap, jobs, calls>>

EmptyUpdate ==
  \A data \in Data :
    Update(data) /\ Merged(data) = ""
      => /\ inst'.qr = inst.qr
         /\ inst'.svg = inst.svg
         /\ inst'.svgDrawingPromise = inst.svgDrawingPromise
         /\ inst'.canvasDrawingPromise = inst.canvasDrawingPromise
         /\ heap'.builders = heap.builders
         /\ heap'.promises = heap.promises

C28_EmptyQR ==
  /\ [](inst.made /\ heap.symbols = << >> => Empty)
  /\ [][RejectsEmpty /\ EmptyUpdate]_vars

\* a call was rejected on an instance that has made nothing
C28_Witness ==
  /\ inst.made
  /\ thrown = "QR code is empty"
  /\ heap.builders = << >>
  /\ inst.data = ""
(***************************************************************************)
(* C29  append error and frame: append of a value without appendChild      *)
(* throws 'Container should be a single DOM node' and leaves the           *)
(* remembered container as it was; append(undefined) changes nothing; an   *)
(* update() with data that is not empty, on an instance that remembers a   *)
(* container, leaves that container with exactly one child, the current    *)
(* element of the instance, or with no child when the instance is of type  *)
(* canvas and draws on a node canvas; append(container) itself makes the   *)
(* current element, when there is one, the last child of the container.    *)
(***************************************************************************)
\* the current element of the instance: this._svg, or the canvas for an
\* instance of type canvas
Element ==
  IF inst.type = "canvas" THEN <<"canvas", Canvas(Now)>> ELSE <<"svg", inst.svg>>

\* the instance is of type canvas and draws on a node canvas
OnNodeCanvas == inst.type = "canvas" /\ inst.nodeCanvas

BadContainer ==
  AppendTo("string")
    => /\ thrown' = "Container should be a single DOM node"
       /\ inst'.container = inst.container

NoContainer ==
  AppendTo("undefined") => UNCHANGED <<inst, heap, jobs, calls>>

\* an update() with data that is not empty, after a successful append
UpdateAppended ==
  /\ inst.container = "node"
  /\ \E data \in Data : Update(data) /\ Merged(data) # ""

C30_AsStated == <>(pc \in {"resolved", "rejected"})

=============================================================================
